---- MODULE Spec2Model ----
(***************************************************************************)
(* A model of the gtt23 crate (src/src/lib.rs) and of the example programs *)
(* that build the circuits dataset and its indices (src/examples/*.rs).    *)
(*                                                                         *)
(* The module holds several specifications over one set of variables:     *)
(*   SpecAscii   the fixed-width string helpers of lib.rs                  *)
(*   SpecDecode  decode_circuit / decode_cells of makedset and             *)
(*               writecircuits, one input line at a time                   *)
(*   Spec        the main functions of writeindex and makedset             *)
(* A specification leaves the variables of the others at their idle value. *)
(***************************************************************************)
EXTENDS Integers, Sequences, FiniteSets, TLC

VARIABLES
    s,          \* SpecAscii: the &str argument, a sequence of Unicode scalar values
    N,          \* SpecAscii: the const generic capacity
    fa,         \* SpecAscii: the Result of fixedascii_from_str::<N>(s), or Idle
    back,       \* SpecAscii: the bytes of FixedAscii::as_str() on the Ok buffer, or Idle
    variant,    \* SpecDecode: which example's decode_circuit runs
    jsonl,      \* SpecDecode: the input line handed to decode_circuit
    begin,      \* SpecDecode: writecircuits --begin, an Option<Duration> (seconds)
    end,        \* SpecDecode: writecircuits --end, an Option<Duration> (seconds)
    out,        \* SpecDecode: what decode_circuit returned, or Idle
    prog,       \* Spec: the example whose main runs, "writeindex" or "makedset"
    input,      \* Spec: makedset's cli.input, a sequence of files (sequences of lines)
    ds,         \* Spec: the "circuits" dataset of the HDF5 file, a sequence of records
    pc,         \* Spec: the statement main is at ("done": it returned Ok)
    err,        \* Spec: "none", or the error main returned from the statement at pc
    file_i,     \* Spec: makedset's loop index i over cli.input (1-based)
    circ_array, \* Spec: makedset's circ_array, the circuits decoded from the current file
    wr_cursor,  \* Spec: makedset's wr_cursor
    chunk,      \* Spec: `begin` of the next iteration of the 1_000-step loop
    tot_written,\* Spec: makedset's tot_written
    ci,         \* Spec: the HashMaps ci_uuid .. ci_len (index_uuid .. in makedset)
    store,      \* Spec: the index datasets persisted in the HDF5 file
    label_in,   \* SpecLabel: the Circuit whose label is taken
    label_rs,   \* SpecLabel: what Circuit::label returned, or Idle
    label_mk,   \* SpecLabel: what makedset's circuit_label returned, or Idle
    label_cd,   \* SpecLabel: what convertdset's circuit_label returned, or Idle
    code,       \* SpecCommand: the u8 handed to try_from
    cell_res,   \* SpecCommand: what CellCommand::try_from returned, or Idle
    relay_res,  \* SpecCommand: what RelayCommand::try_from returned, or Idle
    index_label,\* SpecLabelIndex: the HashMap handed to write_label_index, or Idle
    label_res,  \* SpecLabelIndex: the group made and the Result returned, or Idle
    cell_a,     \* SpecCell: the Cell self of cmp and eq
    cell_b,     \* SpecCell: the Cell other of cmp and eq
    cell_cmp,   \* SpecCell: what cell_a.cmp(&cell_b) returned, or Idle
    cell_eq,    \* SpecCell: what cell_a == cell_b returned, or Idle
    inds        \* SpecConvert: convertdset's input dataset, a sequence of records

asciiVars == <<s, N, fa, back>>
decodeVars == <<variant, jsonl, begin, end, out>>
pipeVars ==
    <<prog, input, ds, pc, err, file_i, circ_array, wr_cursor, chunk,
      tot_written, ci, store>>
fnVars == <<label_in, label_rs, label_mk, label_cd, code, cell_res, relay_res>>
moreVars == <<index_label, label_res, cell_a, cell_b, cell_cmp, cell_eq, inds>>
vars == <<asciiVars, decodeVars, pipeVars, fnVars, moreVars>>

Idle == [kind |-> "Idle"]
Ok(v) == [kind |-> "Ok", v |-> v]
Err(e) == [kind |-> "Err", e |-> e]
\* A Rust panic: the thread unwinds, nothing is returned.
Panic(e) == [kind |-> "Panic", e |-> e]
\* Option: Some(v) and None.
Some(v) == [kind |-> "Some", v |-> v]
None == [kind |-> "None"]

Min(a, b) == IF a < b THEN a ELSE b

(***************************************************************************)
(* Strings.  A Rust str is a sequence of Unicode scalar values stored as   *)
(* UTF-8; the model keeps the scalar values and computes the bytes.        *)
(***************************************************************************)
Utf8(c) ==
    IF c < 128 THEN <<c>>
    ELSE IF c < 2048 THEN <<192 + (c \div 64), 128 + (c % 64)>>
    ELSE <<224 + (c \div 4096), 128 + ((c \div 64) % 64), 128 + (c % 64)>>

RECURSIVE Bytes(_)
Bytes(str) == IF str = <<>> THEN <<>> ELSE Utf8(Head(str)) \o Bytes(Tail(str))

Zeros(n) == [i \in 1..n |-> 0]

\* str::is_char_boundary(k): k is 0, the byte length, or the start of a scalar value.
RECURSIVE CharBoundaries(_, _)
CharBoundaries(str, off) ==
    IF str = <<>> THEN {off}
    ELSE {off} \cup CharBoundaries(Tail(str), off + Len(Utf8(Head(str))))

is_char_boundary(str, k) == k \in CharBoundaries(str, 0)

\* Mutant of FormatPadNull: the fill character is a space instead of '\0'.
FormatPadSpace(str, n) ==
    str \o [i \in 1..(IF Len(str) < n THEN n - Len(str) ELSE 0) |-> 32]

\* format!("{s:\0<width$}", width = N): left-aligned, filled with '\0' up to N
\* scalar values (the width counts chars, not bytes); never truncates.
FormatPadNull(str, n) ==
    str \o Zeros(IF Len(str) < n THEN n - Len(str) ELSE 0)

\* FixedAscii::<N>::from_ascii of the hdf5 crate: capacity check, ASCII check,
\* then the bytes copied into a zeroed [u8; N].
from_ascii(bytes, n) ==
    IF Len(bytes) > n THEN Err("InsufficientCapacity")
    ELSE IF \E i \in 1..Len(bytes) : bytes[i] >= 128 THEN Err("AsciiError")
    ELSE Ok(bytes \o Zeros(n - Len(bytes)))

\* Mutant of fixedascii_from_str: the padded string is handed to from_ascii
\* without the [0..N] slice.
fixedascii_from_str_noslice(str, n) ==
    from_ascii(Bytes(FormatPadNull(str, n)), n)

\* lib.rs fixedascii_from_str: pad, slice the first N BYTES (a panic when byte
\* N is inside a multi-byte scalar value), then from_ascii.
fixedascii_from_str(str, n) ==
    LET pad == FormatPadNull(str, n)
    IN  IF ~is_char_boundary(pad, n)
        THEN Panic("byte index is not a char boundary")
        ELSE from_ascii(SubSeq(Bytes(pad), 1, n), n)

fixedascii_null(n) == fixedascii_from_str(<<>>, n)

\* FixedAscii::as_str / to_string / Deref<Target = str> of the hdf5 crate: the
\* buffer without its trailing zero bytes.
RECURSIVE as_str(_)
as_str(buf) ==
    IF buf = <<>> THEN <<>>
    ELSE IF buf[Len(buf)] = 0 THEN as_str(SubSeq(buf, 1, Len(buf) - 1))
    ELSE buf

(***************************************************************************)
(* The categorical types of lib.rs.  A variant is its name; the `as u8`    *)
(* cast is the discriminant function; try_from tries its arms in order.    *)
(***************************************************************************)
DirectionDiscr ==
    [CLIENT_TO_SERVER |-> 1, SERVER_TO_CLIENT |-> -1, PADDING |-> 0]

DirectionArms == <<"CLIENT_TO_SERVER", "SERVER_TO_CLIENT", "PADDING">>

CellCommandDiscr ==
    [PADDING |-> 0, CREATE |-> 1, CREATED |-> 2, RELAY |-> 3, DESTROY |-> 4,
     CREATE_FAST |-> 5, CREATED_FAST |-> 6, VERSIONS |-> 7, NETINFO |-> 8,
     RELAY_EARLY |-> 9, CREATE2 |-> 10, CREATED2 |-> 11,
     PADDING_NEGOTIATE |-> 12, VPADDING |-> 128, CERTS |-> 129,
     AUTH_CHALLENGE |-> 130, AUTHENTICATE |-> 131, AUTHORIZE |-> 132]

\* Mutant of CellCommandArms: the arm of AUTHORIZE is missing.
CellCommandArms_short ==
    <<"PADDING", "CREATE", "CREATED", "RELAY", "DESTROY", "CREATE_FAST",
      "CREATED_FAST", "VERSIONS", "NETINFO", "RELAY_EARLY", "CREATE2",
      "CREATED2", "PADDING_NEGOTIATE", "VPADDING", "CERTS", "AUTH_CHALLENGE",
      "AUTHENTICATE">>

CellCommandArms ==
    <<"PADDING", "CREATE", "CREATED", "RELAY", "DESTROY", "CREATE_FAST",
      "CREATED_FAST", "VERSIONS", "NETINFO", "RELAY_EARLY", "CREATE2",
      "CREATED2", "PADDING_NEGOTIATE", "VPADDING", "CERTS", "AUTH_CHALLENGE",
      "AUTHENTICATE", "AUTHORIZE">>

RelayCommandDiscr ==
    [NOT_PRESENT |-> 0, BEGIN |-> 1, DATA |-> 2, END |-> 3, CONNECTED |-> 4,
     SENDME |-> 5, EXTEND |-> 6, EXTENDED |-> 7, TRUNCATE |-> 8,
     TRUNCATED |-> 9, DROP |-> 10, RESOLVE |-> 11, RESOLVED |-> 12,
     BEGIN_DIR |-> 13, EXTEND2 |-> 14, EXTENDED2 |-> 15, SIGNAL |-> 16,
     ESTABLISH_INTRO |-> 32, ESTABLISH_RENDEZVOUS |-> 33, INTRODUCE1 |-> 34,
     INTRODUCE2 |-> 35, RENDEZVOUS1 |-> 36, RENDEZVOUS2 |-> 37,
     INTRO_ESTABLISHED |-> 38, RENDEZVOUS_ESTABLISHED |-> 39,
     INTRODUCE_ACK |-> 40, PADDING_NEGOTIATE |-> 41, PADDING_NEGOTIATED |-> 42,
     XOFF |-> 43, XON |-> 44]

\* Mutant of RelayCommandArms: the arm of ESTABLISH_INTRO is missing.
RelayCommandArms_short ==
    <<"NOT_PRESENT", "BEGIN", "DATA", "END", "CONNECTED", "SENDME", "EXTEND",
      "EXTENDED", "TRUNCATE", "TRUNCATED", "DROP", "RESOLVE", "RESOLVED",
      "BEGIN_DIR", "EXTEND2", "EXTENDED2", "SIGNAL",
      "ESTABLISH_RENDEZVOUS", "INTRODUCE1", "INTRODUCE2", "RENDEZVOUS1",
      "RENDEZVOUS2", "INTRO_ESTABLISHED", "RENDEZVOUS_ESTABLISHED",
      "INTRODUCE_ACK", "PADDING_NEGOTIATE", "PADDING_NEGOTIATED", "XOFF",
      "XON">>

RelayCommandArms ==
    <<"NOT_PRESENT", "BEGIN", "DATA", "END", "CONNECTED", "SENDME", "EXTEND",
      "EXTENDED", "TRUNCATE", "TRUNCATED", "DROP", "RESOLVE", "RESOLVED",
      "BEGIN_DIR", "EXTEND2", "EXTENDED2", "SIGNAL", "ESTABLISH_INTRO",
      "ESTABLISH_RENDEZVOUS", "INTRODUCE1", "INTRODUCE2", "RENDEZVOUS1",
      "RENDEZVOUS2", "INTRO_ESTABLISHED", "RENDEZVOUS_ESTABLISHED",
      "INTRODUCE_ACK", "PADDING_NEGOTIATE", "PADDING_NEGOTIATED", "XOFF",
      "XON">>

\* match v { v if v == X as u8 => Ok(X), ..., _ => Err(..) }: the first arm
\* whose discriminant equals v.
MatchArms(arms, discr, v, what) ==
    LET hits == {i \in 1..Len(arms) : discr[arms[i]] = v}
    IN  IF hits = {} THEN Err(what)
        ELSE Ok(arms[CHOOSE i \in hits : \A j \in hits : i <= j])

Direction_try_from(v) ==
    MatchArms(DirectionArms, DirectionDiscr, v, "Unexpected direction value")

CellCommand_try_from(v) ==
    MatchArms(CellCommandArms, CellCommandDiscr, v, "Unexpected cell command value")

RelayCommand_try_from(v) ==
    MatchArms(RelayCommandArms, RelayCommandDiscr, v, "Unexpected relay command value")

\* Mutant of Cell_empty: the direction is not PADDING.
Cell_empty_c2s ==
    [time |-> 0, direction |-> "CLIENT_TO_SERVER", cell_cmd |-> "PADDING",
     relay_cmd |-> "NOT_PRESENT"]

\* Cell::empty()
Cell_empty ==
    [time |-> 0, direction |-> "PADDING", cell_cmd |-> "PADDING",
     relay_cmd |-> "NOT_PRESENT"]

(***************************************************************************)
(* SpecAscii: fixedascii_from_str::<N>(s) for every string over Alphabet  *)
(* up to MaxStrLen scalar values and every capacity 1..MaxCap, followed    *)
(* by the decoding of the buffer it returned.                              *)
(***************************************************************************)
MaxStrLen == 3
MaxCap == 3

\* NUL, 'a', 'b' and the two-byte U+00E9.
Alphabet == {0, 97, 98, 233}

Strings == UNION {[1..n -> Alphabet] : n \in 0..MaxStrLen}

is_ascii(str) == \A i \in 1..Len(str) : str[i] < 128

\* The idle values of the variables a specification does not use.
IdleAscii == s = <<>> /\ N = 0 /\ fa = Idle /\ back = Idle
IdleDecode ==
    variant = "none" /\ jsonl = Idle /\ begin = None /\ end = None /\ out = Idle
IdleLabel ==
    label_in = Idle /\ label_rs = Idle /\ label_mk = Idle /\ label_cd = Idle
IdleCommand == code = 0 /\ cell_res = Idle /\ relay_res = Idle
IdleLabelIndex == index_label = Idle /\ label_res = Idle
IdleCell == cell_a = Idle /\ cell_b = Idle /\ cell_cmp = Idle /\ cell_eq = Idle
IdleConvert == inds = <<>>
IdleMore == IdleLabelIndex /\ IdleCell /\ IdleConvert
IdleFn == IdleLabel /\ IdleCommand /\ IdleMore
IdlePipe ==
    /\ prog = "none" /\ input = <<>> /\ ds = <<>> /\ pc = "idle" /\ err = "none"
    /\ file_i = 0 /\ circ_array = <<>> /\ wr_cursor = 0 /\ chunk = 0
    /\ tot_written = 0 /\ ci = <<>> /\ store = <<>>

InitAscii ==
    /\ s \in Strings
    /\ N \in 1..MaxCap
    /\ fa = Idle
    /\ back = Idle
    /\ IdleDecode
    /\ IdlePipe
    /\ IdleFn

Encode ==
    /\ fa = Idle
    /\ fa' = fixedascii_from_str(s, N)
    /\ UNCHANGED <<s, N, back, decodeVars, pipeVars, fnVars, moreVars>>

Decode ==
    /\ fa.kind = "Ok"
    /\ back = Idle
    /\ back' = Ok(as_str(fa.v))
    /\ UNCHANGED <<s, N, fa, decodeVars, pipeVars, fnVars, moreVars>>

NextAscii == Encode \/ Decode

SpecAscii == InitAscii /\ [][NextAscii]_vars

\* C8 (as claimed): whenever s holds a non-ASCII byte, wherever it is,
\* fixedascii_from_str::<N>(s) returns an Err value: neither Ok nor a panic.
C8_NonAsciiIsErr ==
    (fa # Idle /\ ~is_ascii(s)) => fa.kind = "Err"

\* C9: for every ASCII s and every N the call succeeds with exactly N bytes:
\* the first N bytes of s when len(s) > N, else s followed by N - len(s) zeros.
C9_TruncateOrPad ==
    (fa # Idle /\ is_ascii(s)) =>
        /\ fa.kind = "Ok"
        /\ Len(fa.v) = N
        /\ \A i \in 1..N : fa.v[i] = (IF i <= Len(s) THEN s[i] ELSE 0)

\* C9 witness: an ASCII string longer than a non-zero capacity was encoded.
C9_Witness ==
    fa.kind = "Ok" /\ is_ascii(s) /\ Len(s) > N /\ N > 0

\* C10 (as claimed): for every ASCII s with len(s) <= N, decoding the buffer
\* (stripping trailing null bytes) returns exactly s.
C10_RoundTripAll ==
    (back # Idle /\ is_ascii(s) /\ Len(s) <= N) => back.v = Bytes(s)

\* C10 (amended): for every ASCII s with len(s) <= N that does not end in a
\* null byte, decoding the buffer returns exactly s.
C10_RoundTripNoTrailingNull ==
    (back # Idle /\ is_ascii(s) /\ Len(s) <= N
        /\ (s = <<>> \/ s[Len(s)] # 0)) => back.v = Bytes(s)

\* C10 witness: a non-empty ASCII string with an interior null byte, shorter
\* than the capacity, was encoded and decoded.
C10_Witness ==
    /\ back # Idle /\ is_ascii(s) /\ Len(s) < N
    /\ Len(s) = 2 /\ s[1] = 0 /\ s[2] # 0

(***************************************************************************)
(* serde_json values.  A number without a fraction is "int", one with a    *)
(* fraction is "float" (its value kept as an integer of the model); TLC's  *)
(* integers stand for u64/i64/f64 on the small values the lines use.  Each *)
(* type keeps its payload under its own field name.  An                    *)
(* array is kept run-length coded, head \o fill copies of filler \o tail,  *)
(* so that an array of 65,536 entries is one small value.                  *)
(***************************************************************************)
JNull == [t |-> "null"]
JStr(str) == [t |-> "str", str |-> str]
JInt(i) == [t |-> "int", num |-> i]
JFloat(x) == [t |-> "float", num |-> x]
JObj(fields) == [t |-> "obj", obj |-> fields]
JArrRun(head, fill, filler, tail) ==
    [t |-> "arr", head |-> head, fill |-> fill, filler |-> filler, tail |-> tail]
JArr(seq) == JArrRun(seq, 0, JNull, <<>>)

\* Vec<Value>::len and indexing (1-based here).
ArrLen(a) == Len(a.head) + a.fill + Len(a.tail)
ArrAt(a, i) ==
    IF i <= Len(a.head) THEN a.head[i]
    ELSE IF i <= Len(a.head) + a.fill THEN a.filler
    ELSE a.tail[i - Len(a.head) - a.fill]

\* Value::is_null, as_str, as_u64, as_i64, as_f64, as_array returning Some.
is_null(v) == v.t = "null"
is_str(v) == v.t = "str"
is_u64(v) == v.t = "int" /\ v.num >= 0
is_i64(v) == v.t = "int"
is_f64(v) == v.t \in {"int", "float"}
is_array(v) == v.t = "arr"

\* u8::MAX, u16::MAX: the bounds of the try_into() conversions.
U8_MAX == 255
U16_MAX == 65535
\* [Cell; 5000]
CellCapacity == 5000
\* FixedAscii<32> uuid, FixedAscii<44> domain and shortest_private_suffix.
UuidCap == 32
LabelCap == 44

(***************************************************************************)
(* decode_cells.  makedset reads entries [time, net_op, cell_cmd,          *)
(* relay_cmd] (arity 4); writecircuits reads [time, side, net_op,          *)
(* cell_cmd, relay_cmd] (arity 5).  `skip` is the number of elements      *)
(* between time and net_op.                                                *)
(***************************************************************************)
\* Mutant of DirectionOfNetOp: net_op is converted as a Direction code.
DirectionOfNetOp_discr(net_op) == Direction_try_from(net_op).v

\* match net_op { 0 => CLIENT_TO_SERVER, 1 => SERVER_TO_CLIENT, _ => bail }
DirectionOfNetOp(net_op) ==
    IF net_op = 0 THEN "CLIENT_TO_SERVER" ELSE "SERVER_TO_CLIENT"

\* One iteration of the for loop on entry e at 0-based index i: Ok(cell) when
\* cells[i] was filled, else the Err the iteration bails with or its panic.
\* The right-hand side of `cells[i].time = ...` is evaluated before cells[i]
\* is indexed.
CellStep(e, i, arity, skip) ==
    IF ~is_array(e) THEN Err("cell to array")
    ELSE IF ArrLen(e) # arity THEN Err("expected cell elements")
    ELSE IF ~is_f64(ArrAt(e, 1)) THEN Err("time to f64")
    ELSE IF i >= CellCapacity THEN Panic("index out of bounds")
    ELSE IF ~is_i64(ArrAt(e, 2 + skip)) THEN Err("net_op to i64")
    ELSE IF ArrAt(e, 2 + skip).num \notin {0, 1} THEN Err("unexpected net_op")
    ELSE IF ~is_u64(ArrAt(e, 3 + skip)) THEN Err("cell_cmd to u64")
    ELSE IF ArrAt(e, 3 + skip).num > U8_MAX THEN Err("TryFromIntError")
    ELSE IF CellCommand_try_from(ArrAt(e, 3 + skip).num).kind # "Ok"
        THEN CellCommand_try_from(ArrAt(e, 3 + skip).num)
    ELSE IF ~is_u64(ArrAt(e, 4 + skip)) THEN Err("relay_cmd to u64")
    ELSE IF ArrAt(e, 4 + skip).num > U8_MAX THEN Err("TryFromIntError")
    ELSE IF RelayCommand_try_from(ArrAt(e, 4 + skip).num).kind # "Ok"
        THEN RelayCommand_try_from(ArrAt(e, 4 + skip).num)
    ELSE Ok([time |-> ArrAt(e, 1).num,
             direction |-> DirectionOfNetOp(ArrAt(e, 2 + skip).num),
             cell_cmd |-> CellCommand_try_from(ArrAt(e, 3 + skip).num).v,
             relay_cmd |-> RelayCommand_try_from(ArrAt(e, 4 + skip).num).v])

\* The loop over json_cells starting from [Cell::empty(); 5000].  It ends at
\* the first iteration that bails or panics; iteration 5000 always does, so
\* only the first 5001 entries are ever looked at.
DecodeCells(json_cells, arity, skip) ==
    LET n == ArrLen(json_cells)
        stops == {i \in 1..Min(n, CellCapacity + 1) :
                    CellStep(ArrAt(json_cells, i), i - 1, arity, skip).kind # "Ok"}
    IN  IF stops # {}
        THEN LET i == CHOOSE k \in stops : \A j \in stops : k <= j
             IN  CellStep(ArrAt(json_cells, i), i - 1, arity, skip)
        ELSE Ok([i \in 1..CellCapacity |->
                    IF i <= n
                    THEN CellStep(ArrAt(json_cells, i), i - 1, arity, skip).v
                    ELSE Cell_empty])

\* makedset.rs decode_cells
decode_cells(json_cells) == DecodeCells(json_cells, 4, 0)

\* writecircuits.rs decode_cells
decode_cells_wc(json_cells) == DecodeCells(json_cells, 5, 1)

(***************************************************************************)
(* decode_circuit.  A line is [prefix, body]: whether it starts with       *)
(* "650 GWF ", and what follows: body.len is the byte length of the rest   *)
(* (2 standing for "2 or more"), body.kind is "json" with the parsed value *)
(* when serde_json::from_str accepts the text, else "blank" (whitespace    *)
(* only) or "garbage".                                                     *)
(***************************************************************************)
\* The part of both decode_circuit functions from `domain` to the end.
DecodeTail(o, day, uuid, arity, skip) ==
    LET has(k) == k \in DOMAIN o
        dom == fixedascii_from_str(o.domain.str, LabelCap)
        sps == IF is_null(o.shortest_private_suffix)
               THEN fixedascii_null(LabelCap)
               ELSE fixedascii_from_str(o.shortest_private_suffix.str, LabelCap)
        id == fixedascii_from_str(uuid, UuidCap)
        cells == DecodeCells(o.cells, arity, skip)
    IN  IF ~has("domain") THEN Err("key 'domain' missing")
        ELSE IF ~is_str(o.domain) THEN Err("domain to str")
        ELSE IF dom.kind # "Ok" THEN dom
        ELSE IF ~has("shortest_private_suffix")
            THEN Err("key 'shortest_private_suffix' missing")
        ELSE IF ~is_null(o.shortest_private_suffix)
                /\ ~is_str(o.shortest_private_suffix)
            THEN Err("shortest_private_suffix to str")
        ELSE IF sps.kind # "Ok" THEN sps
        ELSE IF ~has("port") THEN Err("key 'port' missing")
        ELSE IF ~is_u64(o.port) THEN Err("day to u64")
        ELSE IF o.port.num > U16_MAX THEN Err("TryFromIntError")
        ELSE IF ~has("cells") THEN Err("key 'cells' missing")
        ELSE IF ~is_array(o.cells) THEN Err("cells to array")
        ELSE IF id.kind # "Ok" THEN id
        ELSE IF ArrLen(o.cells) > U16_MAX THEN Err("TryFromIntError")
        ELSE IF cells.kind # "Ok" THEN cells
        ELSE Ok([uuid |-> id.v,
                 domain |-> dom.v,
                 shortest_private_suffix |-> sps.v,
                 day |-> day,
                 port |-> o.port.num,
                 len |-> ArrLen(o.cells),
                 cells |-> cells.v])

\* makedset.rs decode_circuit: Result<Circuit>.
decode_circuit(line, uuid) ==
    IF line.body.kind # "json" THEN Err("serde_json::from_str")
    ELSE IF line.body.val.t # "obj"
        THEN Err("Unable to convert serde value into object")
    ELSE LET o == line.body.val.obj
         IN  IF "day" \notin DOMAIN o THEN Err("key 'day' missing")
             ELSE IF ~is_u64(o.day) THEN Err("day to u64")
             ELSE IF o.day.num > U8_MAX THEN Err("TryFromIntError")
             ELSE DecodeTail(o, o.day.num, uuid, 4, 0)

\* Mutant of u8_try_from: the number is cut to its low 8 bits.
u8_wrapping(n) == Ok(n % (U8_MAX + 1))

\* u8::try_from(n) of a u64 (the `.try_into()?` of writecircuits.rs:266).
u8_try_from(n) == IF n > U8_MAX THEN Err("TryFromIntError") ELSE Ok(n)

\* writecircuits.rs decode_circuit: Result<Option<Circuit>>, Ok(None) being
\* the value None of the model.
decode_circuit_wc(line, b, e, uuid) ==
    IF line.body.len <= 1 THEN None
    ELSE IF line.body.kind # "json" THEN Err("Parsing jsonl root")
    ELSE IF line.body.val.t # "obj"
        THEN Err("Unable to convert serde value into object")
    ELSE LET o == line.body.val.obj
             created == o.time_created.num
             days == (IF created >= b.v THEN created - b.v ELSE 0) \div (3600 * 24) + 1
         IN  IF "time_created" \notin DOMAIN o THEN Err("key 'time_created' missing")
             ELSE IF ~is_f64(o.time_created) THEN Err("time_created to f64")
             ELSE IF created < 0 THEN Panic("Duration::from_secs_f64: negative")
             ELSE IF (b.kind = "Some" /\ created < b.v)
                     \/ (e.kind = "Some" /\ created > e.v) THEN None
             ELSE IF b.kind = "Some" /\ u8_try_from(days).kind # "Ok"
                 THEN u8_try_from(days)
             ELSE DecodeTail(o, IF b.kind = "Some" THEN u8_try_from(days).v ELSE 0,
                             uuid, 5, 1)

(***************************************************************************)
(* SpecDecode: one call of decode_circuit on each line of a family of      *)
(* well-formed and defective lines, for both examples.                     *)
(***************************************************************************)
\* The number of values Uuid::new_v4() can return in the model.
MaxUuids == 3
\* The start of the time window, seconds since the epoch.
T0 == 1700000000
SecsPerDay == 3600 * 24

\* Mutant of Uuid: the text has 31 digits.
Uuid_short(k) == [i \in 1..31 |-> 48 + k]

\* Uuid::new_v4().simple().to_string(): 32 hex digits.
Uuid(k) == [i \in 1..32 |-> 48 + k]
Uuids == {Uuid(k) : k \in 1..MaxUuids}

Arity(v) == IF v = "makedset" THEN 4 ELSE 5

\* A cell entry of the given arity; writecircuits' second element is `side`.
Entry(arity, time, net_op, cell_cmd, relay_cmd) ==
    JArr(IF arity = 4
         THEN <<JFloat(time), JInt(net_op), JInt(cell_cmd), JInt(relay_cmd)>>
         ELSE <<JFloat(time), JInt(1), JInt(net_op), JInt(cell_cmd),
                JInt(relay_cmd)>>)

G1(a) == Entry(a, 12, 0, 3, 2)
G2(a) == Entry(a, 25, 1, 9, 0)

\* Entries of the wrong arity (the other schema's).
WrongArityEntries(a) == {Entry(9 - a, 12, 0, 3, 2)}

\* Entries with an unrecognized net_op, cell_cmd or relay_cmd code.
BadCodeEntries(a) ==
    {Entry(a, 12, -1, 3, 2), Entry(a, 12, 2, 3, 2), Entry(a, 12, 0, 13, 2),
     Entry(a, 12, 0, 127, 2), Entry(a, 12, 0, 3, 17), Entry(a, 12, 0, 3, 45)}

\* Entries that are ill-typed in another way.
IllTypedEntries(a) ==
    {JInt(7), Entry(a, 12, 0, 300, 2),
     JArr(IF a = 4 THEN <<JStr(<<97>>), JInt(0), JInt(3), JInt(2)>>
          ELSE <<JStr(<<97>>), JInt(1), JInt(0), JInt(3), JInt(2)>>)}

SmallCells(a) ==
    {JArr(<<>>), JArr(<<G1(a)>>), JArr(<<G1(a), G2(a)>>)}
    \cup {JArr(<<G1(a), b>>) :
            b \in WrongArityEntries(a) \cup BadCodeEntries(a) \cup IllTypedEntries(a)}

\* Arrays around the capacity of 5000 and around u16::MAX.
LargeCells(a) ==
    {JArrRun(<<G1(a)>>, CellCapacity - 1, G2(a), <<>>),
     JArrRun(<<G1(a)>>, CellCapacity, G2(a), <<>>),
     JArrRun(<<>>, CellCapacity + 1, G2(a), <<Entry(a, 12, 0, 13, 2)>>),
     JArrRun(<<>>, CellCapacity, G2(a), <<Entry(9 - a, 12, 0, 3, 2)>>),
     JArrRun(<<Entry(a, 12, 0, 3, 17)>>, CellCapacity, G2(a), <<>>),
     JArrRun(<<>>, U16_MAX, G2(a), <<>>),
     JArrRun(<<>>, U16_MAX + 1, G2(a), <<>>)}

BaseObj(cells, created) ==
    [day |-> JInt(3), domain |-> JStr(<<97, 46, 98>>),
     shortest_private_suffix |-> JNull, port |-> JInt(443),
     cells |-> cells, time_created |-> JFloat(created)]

Drop(o, k) == [x \in DOMAIN o \ {k} |-> o[x]]

\* o itself and o with one key missing or one value replaced.
MetaVariants(o) ==
    {o}
    \cup {Drop(o, k) : k \in {"day", "domain", "shortest_private_suffix", "port",
                             "cells", "time_created"}}
    \cup {[o EXCEPT !.domain = JInt(1)], [o EXCEPT !.domain = JStr(<<233>>)],
          [o EXCEPT !.shortest_private_suffix = JInt(1)],
          [o EXCEPT !.shortest_private_suffix = JStr(<<98>>)],
          [o EXCEPT !.port = JStr(<<52>>)], [o EXCEPT !.port = JInt(U16_MAX + 1)],
          [o EXCEPT !.port = JInt(-1)], [o EXCEPT !.day = JInt(U8_MAX + 1)],
          [o EXCEPT !.cells = JStr(<<97>>)],
          [o EXCEPT !.time_created = JStr(<<97>>)]}

JsonLine(prefix, val) ==
    [prefix |-> prefix, body |-> [kind |-> "json", len |-> 2, val |-> val]]

\* Lines that read_line can return (at least one byte).
OtherLines ==
    {[prefix |-> p, body |-> [kind |-> "blank", len |-> n]] :
        p \in BOOLEAN, n \in 1..3}
    \cup {[prefix |-> TRUE, body |-> [kind |-> "blank", len |-> 0]],
          [prefix |-> FALSE, body |-> [kind |-> "garbage", len |-> 2]],
          JsonLine(FALSE, JInt(17)), JsonLine(FALSE, JArr(<<>>))}

Lines(a, created) ==
    {JsonLine(FALSE, JObj(o)) :
        o \in UNION {MetaVariants(BaseObj(c, created)) : c \in SmallCells(a)}}
    \cup {JsonLine(FALSE, JObj(BaseObj(c, created))) : c \in LargeCells(a)}
    \cup {JsonLine(TRUE, JObj(BaseObj(JArr(<<G1(a)>>), created)))}
    \cup OtherLines

TimesCreated == {T0 + 3600, T0 + SecsPerDay + 3600}
\* Further values of time_created, on one well-formed line of writecircuits:
\* before the epoch, just before the window, its two ends, and the last
\* second of day 255 and the first of day 256 after T0.
EdgeTimes ==
    {-1, T0 - 1, T0, T0 + SecsPerDay,
     T0 + U8_MAX * SecsPerDay - 1, T0 + U8_MAX * SecsPerDay}
EdgeLines == {JsonLine(FALSE, JObj(BaseObj(JArr(<<G1(5)>>), c))) : c \in EdgeTimes}
Windows == {<<None, None>>, <<Some(T0), Some(T0 + SecsPerDay)>>}
\* Windows with one end only, applied to EdgeLines.
OpenWindows == {<<Some(T0), None>>, <<None, Some(T0 + SecsPerDay)>>}

InitDecode ==
    /\ IdleAscii
    /\ IdlePipe
    /\ IdleFn
    /\ variant \in {"makedset", "writecircuits"}
    /\ \E w \in (IF variant = "makedset" THEN {<<None, None>>}
                 ELSE Windows \cup OpenWindows) :
            begin = w[1] /\ end = w[2]
    /\ jsonl \in (IF <<begin, end>> \in OpenWindows THEN {}
                  ELSE UNION {Lines(Arity(variant), c) :
                               c \in (IF variant = "makedset" THEN {T0 + 3600}
                                      ELSE TimesCreated)})
                \cup (IF variant = "writecircuits" THEN EdgeLines ELSE {})
    /\ out = Idle

DecodeCircuit ==
    /\ variant = "makedset"
    /\ out = Idle
    /\ \E u \in Uuids : out' = decode_circuit(jsonl, u)
    /\ UNCHANGED <<asciiVars, fnVars, moreVars, pipeVars, variant, jsonl, begin, end>>

DecodeCircuitWc ==
    /\ variant = "writecircuits"
    /\ out = Idle
    /\ \E u \in Uuids : out' = decode_circuit_wc(jsonl, begin, end, u)
    /\ UNCHANGED <<asciiVars, fnVars, moreVars, pipeVars, variant, jsonl, begin, end>>

NextDecode == DecodeCircuit \/ DecodeCircuitWc

SpecDecode == InitDecode /\ [][NextDecode]_vars

\* The line is a JSON object.
IsObjLine(line) == line.body.kind = "json" /\ line.body.val.t = "obj"

\* The entries that occur in a run-length coded array.
EntriesOf(a) ==
    {a.head[i] : i \in 1..Len(a.head)} \cup {a.tail[i] : i \in 1..Len(a.tail)}
    \cup (IF a.fill > 0 THEN {a.filler} ELSE {})

\* The codes the cell-format specification defines.
ValidCellCodes == (0..12) \cup (128..132)
ValidRelayCodes == (0..16) \cup (32..44)

\* A required field (domain, shortest_private_suffix, port, cells) is missing
\* or has the wrong JSON type or range.
MissingOrIllTyped(o) ==
    \/ "domain" \notin DOMAIN o \/ o.domain.t # "str"
    \/ "shortest_private_suffix" \notin DOMAIN o
    \/ o.shortest_private_suffix.t \notin {"null", "str"}
    \/ "port" \notin DOMAIN o \/ o.port.t # "int"
    \/ o.port.num < 0 \/ o.port.num > 65535
    \/ "cells" \notin DOMAIN o \/ o.cells.t # "arr"

\* A cell entry of the wrong arity, or with an unrecognized net_op, cell_cmd
\* or relay_cmd code, among the entries of the cells array.
BadArityOrCode(o, arity) ==
    /\ "cells" \in DOMAIN o /\ o.cells.t = "arr"
    /\ \E e \in EntriesOf(o.cells) :
        /\ e.t = "arr"
        /\ \/ ArrLen(e) # arity
           \/ /\ \A i \in 2..arity : ArrAt(e, i).t = "int"
              /\ \/ ArrAt(e, arity - 2).num \notin {0, 1}
                 \/ ArrAt(e, arity - 1).num \notin ValidCellCodes
                 \/ ArrAt(e, arity).num \notin ValidRelayCodes

\* created lies outside a supplied window [begin, end].
OutsideWindow(line) ==
    /\ IsObjLine(line)
    /\ "time_created" \in DOMAIN line.body.val.obj
    /\ line.body.val.obj.time_created.t \in {"int", "float"}
    /\ \/ begin.kind = "Some" /\ line.body.val.obj.time_created.num < begin.v
       \/ end.kind = "Some" /\ line.body.val.obj.time_created.num > end.v

\* C5 (as claimed): a non-empty line with a missing or ill-typed required
\* field, a cell entry of the wrong arity or an unrecognized code makes
\* decode_circuit return an Err (never a soft skip, never a Circuit, never a
\* panic); and a soft skip happens only for an empty line or a line outside
\* the time window.
C5_FailFast ==
    out # Idle =>
        /\ (IsObjLine(jsonl)
              /\ (MissingOrIllTyped(jsonl.body.val.obj)
                    \/ BadArityOrCode(jsonl.body.val.obj, Arity(variant))))
            => out.kind = "Err"
        /\ out.kind = "None" =>
            (jsonl.body.kind = "blank" \/ OutsideWindow(jsonl))

\* C6 (as claimed, for the lines that are not soft-skipped): a line whose
\* cells array has more than 5000 entries is rejected with an Err value, and
\* every Circuit produced has len <= 5000.
C6_CellCountBound ==
    /\ (out \notin {Idle, None} /\ IsObjLine(jsonl)
          /\ ~MissingOrIllTyped(jsonl.body.val.obj)
          /\ ArrLen(jsonl.body.val.obj.cells) > 5000)
        => out.kind = "Err"
    /\ out.kind = "Ok" => out.v.len <= 5000

\* C7: every Circuit the decoder produces has len equal to the number of
\* entries of the input cells array, cells[0..len) are the input cells
\* decoded in input order, and cells[len..5000) are all the empty Cell.
C7_LenAndPadding ==
    out.kind = "Ok" =>
        LET c == out.v
            a == jsonl.body.val.obj.cells
            skip == Arity(variant) - 4
        IN  /\ c.len = ArrLen(a)
            /\ c.len <= 5000
            /\ DOMAIN c.cells = 1..5000
            /\ \A i \in 1..c.len :
                LET e == ArrAt(a, i)
                IN  /\ c.cells[i].time = ArrAt(e, 1).num
                    /\ c.cells[i].direction =
                         (IF ArrAt(e, 2 + skip).num = 0 THEN "CLIENT_TO_SERVER"
                          ELSE "SERVER_TO_CLIENT")
                    /\ CellCommandDiscr[c.cells[i].cell_cmd] = ArrAt(e, 3 + skip).num
                    /\ RelayCommandDiscr[c.cells[i].relay_cmd] = ArrAt(e, 4 + skip).num
            /\ \A i \in (c.len + 1)..5000 :
                c.cells[i] = [time |-> 0, direction |-> "PADDING",
                              cell_cmd |-> "PADDING", relay_cmd |-> "NOT_PRESENT"]

\* C7 witness: a Circuit with two different valid cells followed by padding.
C7_Witness ==
    /\ out.kind = "Ok" /\ out.v.len = 2
    /\ out.v.cells[1] # out.v.cells[2]
    /\ out.v.cells[1].direction # "PADDING"

\* The line is a JSON object whose time_created is a number, and a window
\* with both ends is supplied.
TimedLineInWindowRun ==
    /\ variant = "writecircuits" /\ out # Idle
    /\ begin.kind = "Some" /\ end.kind = "Some"
    /\ IsObjLine(jsonl)
    /\ "time_created" \in DOMAIN jsonl.body.val.obj
    /\ jsonl.body.val.obj.time_created.t \in {"int", "float"}

\* C18 (as claimed): with a window [begin, end] supplied, a line whose
\* time_created lies outside the window decodes to None, and a line whose
\* time_created lies inside it is not dropped; the well-formed line at
\* T0 + 3600 in the window that starts at T0 is kept with day 1.
C18_TimeWindow ==
    TimedLineInWindowRun =>
        LET created == jsonl.body.val.obj.time_created.num
        IN  /\ (created < begin.v \/ created > end.v) => out = None
            /\ (begin.v <= created /\ created <= end.v) => out # None
            /\ (jsonl = JsonLine(FALSE, JObj(BaseObj(JArr(<<G1(5)>>), T0 + 3600)))
                  /\ begin.v = T0)
                => out.kind = "Ok" /\ out.v.day = 1

\* The same for the lines whose time_created is not negative, which holds.
C18_TimeWindowFromEpoch ==
    (TimedLineInWindowRun /\ jsonl.body.val.obj.time_created.num >= 0)
        => C18_TimeWindow

\* The well-formed line at T0 + 3600 has been kept.
C18_KeptWitness ==
    /\ TimedLineInWindowRun /\ out.kind = "Ok" /\ out.v.day = 1
    /\ jsonl.body.val.obj.time_created.num = T0 + 3600

\* C22 (day bucket): for every line of writecircuits that is not dropped
\* and whose time_created is a number from the epoch on, the day computed
\* is floor((created - begin) / 86400) + 1 when begin is supplied (so at
\* least 1) and 0 when it is not; a Circuit returned carries that day, and
\* a day above 255 makes decode_circuit return an error, no Circuit.
C22_DayBucket ==
    (variant = "writecircuits" /\ out \notin {Idle, None} /\ IsObjLine(jsonl)
       /\ "time_created" \in DOMAIN jsonl.body.val.obj
       /\ jsonl.body.val.obj.time_created.t \in {"int", "float"}
       /\ jsonl.body.val.obj.time_created.num >= 0) =>
        LET created == jsonl.body.val.obj.time_created.num
            day == IF begin.kind = "Some"
                   THEN ((created - begin.v) \div SecsPerDay) + 1 ELSE 0
        IN  /\ begin.kind = "Some" => day >= 1
            /\ day > U8_MAX => out.kind = "Err"
            /\ out.kind = "Ok" => (out.v.day = day /\ day <= U8_MAX)

\* C22 witness: with a start and no end, the line in the last second of
\* day 255 has given a Circuit.
C22_Witness ==
    /\ variant = "writecircuits" /\ out.kind = "Ok" /\ out.v.day = U8_MAX
    /\ begin = Some(T0) /\ end = None

\* The line one second later has given an error.
C22_WitnessErr ==
    /\ variant = "writecircuits" /\ out = Err("TryFromIntError")
    /\ begin = Some(T0) /\ end = None
    /\ jsonl.body.val.obj.time_created.num = T0 + U8_MAX * SecsPerDay

\* A line decoded without a start has day 0.
C22_WitnessNoStart ==
    /\ variant = "writecircuits" /\ out.kind = "Ok" /\ out.v.day = 0
    /\ begin = None

\* An entry of the cells array is a well-shaped cell whose net_op is an
\* integer other than 0 and 1.
BadNetOp(o, arity) ==
    /\ "cells" \in DOMAIN o /\ o.cells.t = "arr"
    /\ \E e \in EntriesOf(o.cells) :
        /\ e.t = "arr" /\ ArrLen(e) = arity
        /\ ArrAt(e, arity - 2).t = "int"
        /\ ArrAt(e, arity - 2).num \notin {0, 1}

C23_WitnessErr ==
    /\ out = Err("unexpected net_op")
    /\ ArrAt(ArrAt(jsonl.body.val.obj.cells, 2), Arity(variant) - 2).num = -1

\* C19 (as claimed): a line that is empty or holds only whitespace decodes
\* to None, never to an error.
C19_EmptyLineSoftSkip ==
    (out # Idle /\ jsonl.body.kind = "blank") => out = None


(***************************************************************************)
(* The index builders: the main functions of writeindex and makedset.      *)
(* A circuit is carried with its metadata fields only; neither main reads  *)
(* the cells of a circuit.                                                 *)
(***************************************************************************)
\* The number of circuits in a dataset (writeindex) or of lines in the input
\* files together (makedset).
MaxRecs == 3
\* The step of the chunked loops; 1_000 in the code (writeindex.rs:49,
\* makedset.rs:92), scaled down with MaxRecs so that several chunks occur.
Step == 2

Metadata(c) == [k \in DOMAIN c \ {"cells"} |-> c[k]]

\* Mutant of entry_push: the position is put in front of the list.
entry_push_front(m, k, p) ==
    IF k \in DOMAIN m THEN [m EXCEPT ![k] = <<p>> \o @] ELSE m @@ (k :> <<p>>)

\* HashMap::entry(k).or_default().push(p)
entry_push(m, k, p) ==
    IF k \in DOMAIN m THEN [m EXCEPT ![k] = Append(@, p)] ELSE m @@ (k :> <<p>>)

\* HashMap::into_iter(): the keys in any order.
RECURSIVE Orders(_)
Orders(keys) ==
    IF keys = {} THEN {<<>>}
    ELSE UNION {{<<k>> \o ord : ord \in Orders(keys \ {k})} : k \in keys}

into_iter(m) == Orders(DOMAIN m)

\* Mutant of StableSort: the sequence is left as it is.
StableSort_unsorted(seq, lt) == seq

\* Mutant of StableSort: the sequence is sorted in descending order.
StableSort_descending(seq, lt) ==
    LET n == Len(seq)
        rank(i) == Cardinality({j \in 1..n : \/ lt[i, j]
                                             \/ (~lt[j, i] /\ j < i)}) + 1
    IN  [r \in 1..n |-> seq[CHOOSE i \in 1..n : rank(i) = r]]

\* slice::sort_by_key and slice::sort: a stable sort, lt[i, j] telling
\* whether the key of seq[i] is less than the key of seq[j].
StableSort(seq, lt) ==
    LET n == Len(seq)
        rank(i) == Cardinality({j \in 1..n : \/ lt[j, i]
                                             \/ (~lt[i, j] /\ j < i)}) + 1
    IN  [r \in 1..n |-> seq[CHOOSE i \in 1..n : rank(i) = r]]

\* indices.sort() on a Vec<CircuitIndex>
sort(indices) ==
    StableSort(indices, [i, j \in DOMAIN indices |-> indices[i] < indices[j]])

\* The order of String: lexicographic on the bytes.
StrLt(a, b) ==
    \E k \in 1..(Min(Len(a), Len(b)) + 1) :
        /\ \A i \in 1..(k - 1) : a[i] = b[i]
        /\ \/ (k > Len(a) /\ k <= Len(b))
           \/ (k <= Len(a) /\ k <= Len(b) /\ a[k] < b[k])

\* Mutant of is_empty: only the first byte is looked at.
is_empty_first(buf) == buf = <<>> \/ buf[1] = 0

\* FixedAscii's Deref<Target = str> followed by str::is_empty.
is_empty(buf) == as_str(buf) = <<>>

\* lib.rs Circuit::label
Circuit_label(c) ==
    IF is_empty(c.shortest_private_suffix) THEN c.domain
    ELSE c.shortest_private_suffix

\* Mutant of chunk_end: the end is not clamped to the size.
chunk_end_unclamped(b, size) == b + Step

\* The two ends of a chunk of the loops that step by Step.
chunk_end(b, size) == Min(b + Step, size)

\* writeindex.rs:60, i counting from 0 within the chunk that starts at b.
wi_index_bare(b, i) == i
wi_index(b, i) == b + i

\* writeindex.rs:59-67: the loop over the circuits of one chunk, from the
\* k-th on.
RECURSIVE wi_push(_, _, _, _)
wi_push(maps, circuits, b, k) ==
    IF k > Len(circuits) THEN maps
    ELSE LET circuit == circuits[k]
             index == wi_index(b, k - 1)
         IN  wi_push([uuid |-> entry_push(maps.uuid, circuit.uuid, index),
                      label |-> entry_push(maps.label, Circuit_label(circuit), index),
                      day |-> entry_push(maps.day, circuit.day, index),
                      port |-> entry_push(maps.port, circuit.port, index),
                      len |-> entry_push(maps.len, circuit.len, index)],
                     circuits, b, k + 1)

\* writeindex.rs write_index: an existing dataset of that name is unlinked,
\* then the dataset is created with the data.
write_index(st, name, data) ==
    [n \in DOMAIN st \cup {name} |-> IF n = name THEN data ELSE st[n]]

\* `indices.len() != 1` of the uuid blocks (writeindex.rs:83, makedset.rs:421).
NotUniqueNever(indices) == Len(indices) < 1
NotUnique(indices) == Len(indices) # 1

\* One iteration of the read loop of writeindex (writeindex.rs:54-70).
wi_read_slice ==
    /\ prog = "writeindex" /\ err = "none" /\ pc = "read" /\ chunk < Len(ds)
    /\ LET e == chunk_end(chunk, Len(ds))
           circuits == SubSeq(ds, chunk + 1, e)
       IN  ci' = wi_push(ci, circuits, chunk, 1)
    /\ chunk' = chunk + Step
    /\ UNCHANGED <<asciiVars, fnVars, moreVars, decodeVars, prog, input, ds, pc, err, file_i,
                   circ_array, wr_cursor, tot_written, store>>

\* The end of the read loop (writeindex.rs:72-73).
wi_read_finish ==
    /\ prog = "writeindex" /\ err = "none" /\ pc = "read" /\ chunk >= Len(ds)
    /\ pc' = "uuid"
    /\ UNCHANGED <<asciiVars, fnVars, moreVars, decodeVars, prog, input, ds, err, file_i,
                   circ_array, wr_cursor, chunk, tot_written, ci, store>>

\* The uuid block (writeindex.rs:79-96).
wi_write_uuid ==
    /\ prog = "writeindex" /\ err = "none" /\ pc = "uuid"
    /\ \E ord \in into_iter(ci.uuid) :
         IF \E i \in DOMAIN ord : NotUnique(ci.uuid[ord[i]])
         THEN /\ err' = "Too many indieces"
              /\ UNCHANGED <<pc, store>>
         ELSE LET index == [i \in DOMAIN ord |->
                              [uuid |-> ord[i], index |-> ci.uuid[ord[i]][1]]]
                  lt == [i, j \in DOMAIN index |->
                           StrLt(as_str(index[i].uuid), as_str(index[j].uuid))]
              IN  /\ store' = write_index(store, "/index/uuid", StableSort(index, lt))
                  /\ pc' = "label"
                  /\ UNCHANGED err
    /\ UNCHANGED <<asciiVars, fnVars, moreVars, decodeVars, prog, input, ds, file_i, circ_array,
                   wr_cursor, chunk, tot_written, ci>>

\* The label block (writeindex.rs:99-112).
wi_write_label ==
    /\ prog = "writeindex" /\ err = "none" /\ pc = "label"
    /\ \E ord \in into_iter(ci.label) :
         LET index == [i \in DOMAIN ord |->
                         [label |-> ord[i],
                          indexa |-> sort(ci.label[ord[i]])]]
             lt == [i, j \in DOMAIN index |->
                      StrLt(as_str(index[i].label), as_str(index[j].label))]
         IN  store' = write_index(store, "/index/label", StableSort(index, lt))
    /\ pc' = "day"
    /\ UNCHANGED <<asciiVars, fnVars, moreVars, decodeVars, prog, input, ds, err, file_i,
                   circ_array, wr_cursor, chunk, tot_written, ci>>

\* The day, port and len blocks (writeindex.rs:115-128, 131-144, 147-160),
\* which differ in the field only.
wi_write_num(field, name, next) ==
    /\ prog = "writeindex" /\ err = "none" /\ pc = field
    /\ \E ord \in into_iter(ci[field]) :
         LET index == [i \in DOMAIN ord |->
                         [f \in {field, "indexa"} |->
                            IF f = field THEN ord[i]
                            ELSE sort(ci[field][ord[i]])]]
             lt == [i, j \in DOMAIN index |-> index[i][field] < index[j][field]]
         IN  store' = write_index(store, name, StableSort(index, lt))
    /\ pc' = next
    /\ UNCHANGED <<asciiVars, fnVars, moreVars, decodeVars, prog, input, ds, err, file_i,
                   circ_array, wr_cursor, chunk, tot_written, ci>>

wi_write_day == wi_write_num("day", "/index/day", "port")
wi_write_port == wi_write_num("port", "/index/port", "len")
wi_write_len == wi_write_num("len", "/index/len", "done")

\* A dataset element that was created but never written: HDF5 fills it with
\* zero bytes.
ZeroedCircuit ==
    [uuid |-> Zeros(UuidCap), domain |-> Zeros(LabelCap),
     shortest_private_suffix |-> Zeros(LabelCap), day |-> 0, port |-> 0, len |-> 0]

\* Mutant of circuit_label: the two branches are exchanged.
circuit_label_swapped(circ, fixed_ascii_null) ==
    IF circ.shortest_private_suffix # fixed_ascii_null
    THEN Ok(circ.domain)
    ELSE Ok(circ.shortest_private_suffix)

\* makedset.rs circuit_label
circuit_label(circ, fixed_ascii_null) ==
    IF circ.shortest_private_suffix # fixed_ascii_null
    THEN Ok(circ.shortest_private_suffix)
    ELSE Ok(circ.domain)

\* makedset.rs:110, j counting from 0 within the file written at cursor.
ds_index_bare(cursor, j) == j
ds_index(cursor, j) == cursor + j

\* makedset.rs:109-116: the loop over the circuits of one file, from the
\* k-th on; fixed_ascii_null is the value made at makedset.rs:78.
RECURSIVE mk_push(_, _, _, _, _)
mk_push(maps, circs, cursor, fixed_ascii_null, k) ==
    IF k > Len(circs) THEN maps
    ELSE LET circ == circs[k]
             di == ds_index(cursor, k - 1)
             label == circuit_label(circ, fixed_ascii_null).v
         IN  mk_push([day |-> entry_push(maps.day, circ.day, di),
                      uuid |-> entry_push(maps.uuid, circ.uuid, di),
                      label |-> entry_push(maps.label, label, di)],
                     circs, cursor, fixed_ascii_null, k + 1)

\* format!("{day}")
RECURSIVE Decimal(_)
Decimal(n) == IF n < 10 THEN <<48 + n>> ELSE Decimal(n \div 10) \o <<48 + (n % 10)>>

\* Mutant of replace: the string is returned as it is.
replace_nothing(str, from, to) == str

\* str::replace of one byte by another: label.replace("/", "_")
replace(str, from, to) == [i \in DOMAIN str |-> IF str[i] = from THEN to ELSE str[i]]

\* A group just made by File::create_group.
NewGroup == [datasets |-> <<>>, note |-> FALSE]

\* The loops of write_day_index, write_label_index and write_uuid_index from
\* the k-th entry on: each entry bails or creates one dataset in the group,
\* and a dataset cannot be created under an empty name or a name in use.
\* After the last entry the note attribute is created.
RECURSIVE create_datasets(_, _, _)
create_datasets(group, entries, k) ==
    IF k > Len(entries)
    THEN [group |-> [group EXCEPT !.note = TRUE], res |-> Ok("written")]
    ELSE LET e == entries[k]
         IN  IF e.bail
             THEN [group |-> group, res |-> Err("Uuid should be unique")]
             ELSE IF e.name = <<>> \/ e.name \in DOMAIN group.datasets
             THEN [group |-> group, res |-> Err("hdf5: unable to create dataset")]
             ELSE create_datasets(
                      [group EXCEPT !.datasets = @ @@ (e.name :> e.data)],
                      entries, k + 1)

\* makedset.rs write_day_index, the HashMap being iterated in the order ord.
write_day_index(index, ord) ==
    create_datasets(NewGroup,
        [i \in DOMAIN ord |->
            [bail |-> FALSE, name |-> Decimal(ord[i]), data |-> index[ord[i]]]], 1)

\* makedset.rs write_label_index
write_label_index(index, ord) ==
    create_datasets(NewGroup,
        [i \in DOMAIN ord |->
            [bail |-> FALSE, name |-> replace(as_str(ord[i]), 47, 95),
             data |-> index[ord[i]]]], 1)

\* makedset.rs write_uuid_index
write_uuid_index(index, ord) ==
    create_datasets(NewGroup,
        [i \in DOMAIN ord |->
            [bail |-> NotUnique(index[ord[i]]), name |-> as_str(ord[i]),
             data |-> index[ord[i]][1]]], 1)

\* The lines of the input files of makedset in this specification: two
\* circuits that differ in every field, and a line without a domain.
PipeLine(domain, sps, day, port, cells) ==
    JsonLine(FALSE, JObj([day |-> JInt(day), domain |-> JStr(domain),
                          shortest_private_suffix |-> sps, port |-> JInt(port),
                          cells |-> cells]))

GoodLines ==
    {PipeLine(<<97>>, JNull, 1, 443, JArr(<<>>)),
     PipeLine(<<97>>, JStr(<<98>>), 2, 80, JArr(<<G1(4)>>))}

PipeLines ==
    GoodLines \cup {JsonLine(FALSE, JObj(Drop(BaseObj(JArr(<<>>), T0), "domain")))}

SeqsUpTo(S, n) == UNION {[1..k -> S] : k \in 0..n}

\* cli.input: two files whose lines number at most MaxRecs.
Inputs ==
    {<<f1, f2>> : f1 \in SeqsUpTo(PipeLines, MaxRecs), f2 \in SeqsUpTo(PipeLines, MaxRecs)}

\* decode_circuit on the lines of this specification, tabulated; of a
\* Circuit the metadata is kept.
Decoded ==
    [l \in PipeLines, u \in Uuids |->
        LET r == decode_circuit(l, u)
        IN  IF r.kind = "Ok" THEN Ok(Metadata(r.v)) ELSE r]

\* The circuits of the datasets writeindex is run on.
Circuits == {Decoded[l, u].v : l \in GoodLines, u \in Uuids}

\* The values n calls of Uuid::new_v4() can return one after another: each
\* is a value that this run has used before, or the first of the values not
\* used so far (the values are interchangeable, being random and opaque).
RECURSIVE new_v4s(_, _)
new_v4s(n, used) ==
    LET free == {k \in 1..MaxUuids : Uuid(k) \notin used}
        fresh == IF free = {} THEN {}
                 ELSE {Uuid(CHOOSE k \in free : \A j \in free : k <= j)}
    IN  IF n = 0 THEN {<<>>}
        ELSE UNION {{<<u>> \o rest : rest \in new_v4s(n - 1, used \cup {u})} :
                      u \in used \cup fresh}

\* Iterator::sum
RECURSIVE sum(_)
sum(seq) == IF seq = <<>> THEN 0 ELSE Head(seq) + sum(Tail(seq))

\* makedset.rs:50-66: the lines are counted and the dataset is created with
\* their number as its shape.
mk_count_circuits ==
    /\ prog = "makedset" /\ err = "none" /\ pc = "count"
    /\ LET circ_counts == [i \in DOMAIN input |-> Len(input[i])]
           n_tot_circs == sum(circ_counts)
       IN  ds' = [p \in 1..n_tot_circs |-> ZeroedCircuit]
    /\ wr_cursor' = 0
    /\ file_i' = 1
    /\ pc' = "decode"
    /\ UNCHANGED <<asciiVars, fnVars, moreVars, decodeVars, prog, input, err, circ_array, chunk,
                   tot_written, ci, store>>

\* makedset.rs:86 with decode_file: every line of the file is decoded, the
\* first error ending main.
mk_decode_file ==
    /\ prog = "makedset" /\ err = "none" /\ pc = "decode"
    /\ LET file == input[file_i]
       IN  \E us \in new_v4s(Len(file), {as_str(k) : k \in DOMAIN ci.uuid}) :
             LET res == [k \in DOMAIN file |-> Decoded[file[k], us[k]]]
                 bad == {k \in DOMAIN file : res[k].kind # "Ok"}
                 first == CHOOSE k \in bad : \A x \in bad : k <= x
             IN  IF bad # {}
                 THEN /\ err' = IF res[first].kind = "Panic" THEN "panic"
                                ELSE res[first].e
                      /\ UNCHANGED <<pc, circ_array, chunk, tot_written>>
                 ELSE /\ circ_array' = [k \in DOMAIN file |-> res[k].v]
                      /\ chunk' = 0
                      /\ tot_written' = 0
                      /\ pc' = "write"
                      /\ UNCHANGED err
    /\ UNCHANGED <<asciiVars, fnVars, moreVars, decodeVars, prog, input, ds, file_i, wr_cursor,
                   ci, store>>

\* One iteration of the write loop (makedset.rs:92-100).
mk_write_slice ==
    /\ prog = "makedset" /\ err = "none" /\ pc = "write" /\ chunk < Len(circ_array)
    /\ LET e == chunk_end(chunk, Len(circ_array))
           wr_begin == wr_cursor + chunk
           wr_end == wr_cursor + e
           wrote == wr_end - wr_begin
       IN  IF wr_end > Len(ds)
           THEN /\ err' = "hdf5: write_slice out of bounds"
                /\ UNCHANGED <<pc, ds, tot_written, chunk>>
           ELSE /\ ds' = [p \in DOMAIN ds |->
                            IF wr_begin < p /\ p <= wr_end
                            THEN circ_array[p - wr_cursor] ELSE ds[p]]
                /\ tot_written' = tot_written + wrote
                /\ chunk' = chunk + Step
                /\ UNCHANGED <<pc, err>>
    /\ UNCHANGED <<asciiVars, fnVars, moreVars, decodeVars, prog, input, file_i, circ_array,
                   wr_cursor, ci, store>>

\* Mutant of after_file: the indices are written after the first file.
after_file_eager(i, n) == "day"

\* makedset.rs:81 and 135: the loop goes to the next file, and past the last
\* file main goes on to write the indices; i counts the files from 1.
after_file(i, n) == IF i + 1 > n THEN "day" ELSE "decode"

\* Mutant of wr_cursor_next: the cursor stays where it is.
wr_cursor_stay(cursor, n) == cursor

\* makedset.rs:120, wr_cursor += circ_array.len()
wr_cursor_next(cursor, n) == cursor + n

\* The rest of the body of the loop over the files (makedset.rs:102-120).
mk_index_file ==
    /\ prog = "makedset" /\ err = "none" /\ pc = "write" /\ chunk >= Len(circ_array)
    /\ IF tot_written # Len(circ_array)
       THEN /\ err' = "Only wrote"
            /\ UNCHANGED <<pc, ci, wr_cursor, file_i>>
       ELSE /\ ci' = mk_push(ci, circ_array, wr_cursor,
                            fixedascii_null(LabelCap).v, 1)
            /\ wr_cursor' = wr_cursor_next(wr_cursor, Len(circ_array))
            /\ file_i' = file_i + 1
            /\ pc' = after_file(file_i, Len(input))
            /\ UNCHANGED err
    /\ UNCHANGED <<asciiVars, fnVars, moreVars, decodeVars, prog, input, ds, circ_array, chunk,
                   tot_written, store>>

\* One of the three calls makedset.rs:135-137; results[ord] is what the
\* function called returns when the HashMap is iterated in the order ord.
mk_write(at, name, results, next) ==
    /\ prog = "makedset" /\ err = "none" /\ pc = at
    /\ \E ord \in DOMAIN results :
         LET r == results[ord]
         IN  /\ store' = store @@ (name :> r.group)
             /\ pc' = IF r.res.kind = "Ok" THEN next ELSE pc
             /\ err' = IF r.res.kind = "Ok" THEN err ELSE r.res.e
    /\ UNCHANGED <<asciiVars, fnVars, moreVars, decodeVars, prog, input, ds, file_i, circ_array,
                   wr_cursor, chunk, tot_written, ci>>

mk_write_day_index ==
    mk_write("day", "/index/day",
             [ord \in into_iter(ci.day) |-> write_day_index(ci.day, ord)], "label")
mk_write_label_index ==
    mk_write("label", "/index/label",
             [ord \in into_iter(ci.label) |-> write_label_index(ci.label, ord)],
             "uuid")
mk_write_uuid_index ==
    mk_write("uuid", "/index/uuid",
             [ord \in into_iter(ci.uuid) |-> write_uuid_index(ci.uuid, ord)], "done")

InitPipe ==
    /\ IdleAscii
    /\ IdleDecode
    /\ IdleFn
    /\ prog \in {"writeindex", "makedset"}
    /\ IF prog = "writeindex"
       THEN /\ input = <<>>
            /\ ds \in SeqsUpTo(Circuits, MaxRecs)
            /\ pc = "read"
            /\ ci = [uuid |-> <<>>, label |-> <<>>, day |-> <<>>, port |-> <<>>,
                     len |-> <<>>]
       ELSE /\ input \in {in \in Inputs : Len(in[1]) + Len(in[2]) <= MaxRecs}
            /\ ds = <<>>
            /\ pc = "count"
            /\ ci = [day |-> <<>>, uuid |-> <<>>, label |-> <<>>]
    /\ err = "none"
    /\ file_i = 0 /\ circ_array = <<>> /\ wr_cursor = 0 /\ chunk = 0
    /\ tot_written = 0 /\ store = <<>>

Next ==
    \/ wi_read_slice
    \/ wi_read_finish
    \/ wi_write_uuid
    \/ wi_write_label
    \/ wi_write_day
    \/ wi_write_port
    \/ wi_write_len
    \/ mk_count_circuits
    \/ mk_decode_file
    \/ mk_write_slice
    \/ mk_index_file
    \/ mk_write_day_index
    \/ mk_write_label_index
    \/ mk_write_uuid_index

Spec == InitPipe /\ [][Next]_vars

(***************************************************************************)
(* Properties of the index builders.                                       *)
(***************************************************************************)
\* main has ended with an error.
Failed == err # "none"

\* The loop that fills the HashMaps has ended.
IndexBuilt ==
    \/ prog = "writeindex" /\ pc # "read"
    \/ prog = "makedset" /\ pc \in {"day", "label", "uuid", "done"}

\* The statement that writes the uuid index has been executed, with success.
UuidIndexWritten ==
    \/ prog = "writeindex" /\ pc \in {"label", "day", "port", "len", "done"}
    \/ prog = "makedset" /\ pc = "done"

\* The statement that writes the uuid index has returned an error.
UuidIndexRefused == pc = "uuid" /\ Failed

\* The position lists of a persisted index, by entry number (writeindex) or
\* dataset name (makedset).
StoredLists(name) ==
    IF prog = "writeindex"
    THEN [i \in DOMAIN store[name] |->
            IF name = "/index/uuid" THEN <<store[name][i].index>>
            ELSE store[name][i].indexa]
    ELSE [nm \in DOMAIN store[name].datasets |->
            IF name = "/index/uuid" THEN <<store[name].datasets[nm]>>
            ELSE store[name].datasets[nm]]

\* A persisted index that was written to its end.
StoredComplete(name) ==
    name \in DOMAIN store /\ (prog = "makedset" => store[name].note)

\* The number of occurrences of position p in the lists of m.
Occurrences(m, p) ==
    Cardinality({x \in UNION {{<<k, i>> : i \in DOMAIN m[k]} : k \in DOMAIN m} :
                    m[x[1]][x[2]] = p})

\* The lists of m hold each of the positions 0..n-1 once and nothing else.
ExactlyOnce(m, n) ==
    /\ \A p \in 0..(n - 1) : Occurrences(m, p) = 1
    /\ \A k \in DOMAIN m : \A i \in DOMAIN m[k] : m[k][i] \in 0..(n - 1)

\* C1: once the index is built over a record array of length n, the index
\* of every key function holds every position 0..n-1 in exactly one group
\* and exactly once, and no position outside 0..n-1; the same for every
\* index persisted to its end.
C1_Completeness ==
    /\ IndexBuilt => \A f \in DOMAIN ci : ExactlyOnce(ci[f], Len(ds))
    /\ \A name \in DOMAIN store :
          StoredComplete(name) => ExactlyOnce(StoredLists(name), Len(ds))

\* C1 witness: writeindex has finished on a dataset read in several chunks,
\* with two labels of which one has several circuits.
C1_Witness ==
    /\ prog = "writeindex" /\ pc = "done" /\ Len(ds) > Step
    /\ Cardinality(DOMAIN ci.label) >= 2
    /\ \E k \in DOMAIN ci.label : Len(ci.label[k]) >= 2
    /\ DOMAIN store = {"/index/uuid", "/index/label", "/index/day",
                       "/index/port", "/index/len"}

\* The key of a record under the key function of an index.
KeyOf(f, c) ==
    IF f = "label"
    THEN (IF c.shortest_private_suffix = Zeros(LabelCap) THEN c.domain
          ELSE c.shortest_private_suffix)
    ELSE c[f]

\* The name under which makedset persists the group of a key.
NameOf(f, k) ==
    IF f = "day" THEN Decimal(k)
    ELSE IF f = "label" THEN replace(as_str(k), 47, 95)
    ELSE as_str(k)

\* The key field of the index persisted under a name.
FieldOf(name) ==
    IF name = "/index/uuid" THEN "uuid"
    ELSE IF name = "/index/label" THEN "label"
    ELSE IF name = "/index/day" THEN "day"
    ELSE IF name = "/index/port" THEN "port"
    ELSE "len"

\* C2: for every entry (key k, position p) of an index, in memory or
\* persisted, the record at position p of the persisted circuits array has
\* key k under the key function of that index.
C2_ReferentialIntegrity ==
    /\ \A f \in DOMAIN ci : \A k \in DOMAIN ci[f] : \A i \in DOMAIN ci[f][k] :
          LET p == ci[f][k][i]
          IN  p + 1 \in DOMAIN ds /\ KeyOf(f, ds[p + 1]) = k
    /\ \A name \in DOMAIN store :
          LET f == FieldOf(name)
              lists == StoredLists(name)
          IN  \A e \in DOMAIN lists : \A i \in DOMAIN lists[e] :
                LET p == lists[e][i]
                IN  /\ p + 1 \in DOMAIN ds
                    /\ IF prog = "writeindex"
                       THEN KeyOf(f, ds[p + 1]) = store[name][e][f]
                       ELSE NameOf(f, KeyOf(f, ds[p + 1])) = e

\* C2 witness: makedset has finished on two non-empty files whose circuits
\* fall on two days.
C2_Witness ==
    /\ prog = "makedset" /\ pc = "done"
    /\ Len(input[1]) > 0 /\ Len(input[2]) > 0
    /\ Cardinality(DOMAIN store["/index/day"].datasets) >= 2

\* Two records of the circuits array carry the same identifier.
HasDuplicate == \E i, j \in DOMAIN ds : i < j /\ ds[i].uuid = ds[j].uuid

\* C3: when the uuid index is written over records of which two carry the
\* same identifier, the builder ends with the error for a duplicate
\* identifier; when it is written with success, every identifier maps to
\* exactly one position.
C3_Uniqueness ==
    /\ (UuidIndexWritten \/ UuidIndexRefused) /\ HasDuplicate =>
          /\ UuidIndexRefused
          /\ err \in {"Too many indieces", "Uuid should be unique"}
    /\ UuidIndexWritten =>
          /\ ~HasDuplicate
          /\ \A k \in DOMAIN ci.uuid : Len(ci.uuid[k]) = 1
          /\ \A p \in DOMAIN ds :
                Cardinality({e \in DOMAIN StoredLists("/index/uuid") :
                               StoredLists("/index/uuid")[e] = <<p - 1>>}) = 1

\* C3 witness: writeindex has refused a dataset with a repeated identifier.
C3_Witness ==
    /\ prog = "writeindex" /\ UuidIndexRefused /\ HasDuplicate
    /\ err = "Too many indieces"

\* C4 (as claimed): a run that ends in an error has persisted no index, in
\* whole or in part; a run that ends without one has persisted every index
\* to its end.
C4_NoPartialIndex ==
    /\ Failed => DOMAIN store = {}
    /\ pc = "done" =>
          \A f \in DOMAIN ci :
              \E name \in DOMAIN store : FieldOf(name) = f /\ StoredComplete(name)


\* The order of the keys of an index: the order of the strings for uuid and
\* label, the order of the numbers for day, port and len.
KeyLt(f, a, b) ==
    IF f \in {"uuid", "label"} THEN StrLt(as_str(a), as_str(b)) ELSE a < b

\* The keys the records of the circuits array have under a key function.
KeysOf(f) == {KeyOf(f, ds[p]) : p \in DOMAIN ds}

\* The positions of the records with key k, as a set.
PositionsOf(f, k) == {p - 1 : p \in {q \in DOMAIN ds : KeyOf(f, ds[q]) = k}}

\* The numbers of a set in ascending order.
Ascending(S) ==
    [r \in 1..Cardinality(S) |->
        CHOOSE x \in S : Cardinality({y \in S : y < x}) = r - 1]

\* The one index that the circuits array determines for a key function: an
\* entry per key, keys ascending, positions ascending.
IndexOf(f) ==
    [r \in 1..Cardinality(KeysOf(f)) |->
        LET k == CHOOSE x \in KeysOf(f) :
                    Cardinality({y \in KeysOf(f) : KeyLt(f, y, x)}) = r - 1
        IN  IF f = "uuid"
            THEN [uuid |-> k, index |-> CHOOSE p \in PositionsOf(f, k) : TRUE]
            ELSE [x \in {f, "indexa"} |->
                    IF x = f THEN k ELSE Ascending(PositionsOf(f, k))]]

\* C15 (determinism): each index that writeindex persists is the one
\* sequence of entries that the circuits array determines, in whatever
\* order the HashMaps were iterated; two runs over the same array therefore
\* persist identical sequences.
C15_Determinism ==
    prog = "writeindex" =>
        \A name \in DOMAIN store : store[name] = IndexOf(FieldOf(name))

\* C15 witness: writeindex has finished on an array whose three records
\* have three identifiers, not in ascending order, and two labels.
C15_Witness ==
    /\ prog = "writeindex" /\ pc = "done"
    /\ Cardinality(DOMAIN ci.uuid) = 3
    /\ Cardinality(DOMAIN ci.label) = 2
    /\ \E i, j \in DOMAIN ds :
          i < j /\ StrLt(as_str(ds[j].uuid), as_str(ds[i].uuid))

\* C16 (key order): in each index that writeindex persists the keys of the
\* entries are strictly ascending, and the key of every record is the key
\* of exactly one entry.
C16_KeyOrder ==
    prog = "writeindex" =>
        \A name \in DOMAIN store :
            LET f == FieldOf(name)
                index == store[name]
            IN  /\ \A i, j \in DOMAIN index :
                      i < j => KeyLt(f, index[i][f], index[j][f])
                /\ \A p \in DOMAIN ds :
                      Cardinality({i \in DOMAIN index :
                                     index[i][f] = KeyOf(f, ds[p])}) = 1

\* C16 witness: the five indices are persisted over an array whose records
\* come with their ports and identifiers in descending order.
C16_Witness ==
    /\ prog = "writeindex" /\ pc = "done"
    /\ Len(store["/index/port"]) = 2 /\ Len(store["/index/uuid"]) = 3
    /\ ds[1].port > ds[Len(ds)].port
    /\ \A i, j \in DOMAIN ds :
          i < j => StrLt(as_str(ds[j].uuid), as_str(ds[i].uuid))

\* A sequence of numbers that is strictly ascending.
StrictlyAscending(seq) == \A i, j \in DOMAIN seq : i < j => seq[i] < seq[j]

\* C17 (position order): in every persisted label, day, port and len index
\* the position list of every entry is strictly ascending, in writeindex
\* (which sorts each list) and in makedset (which persists each list as it
\* was filled).
C17_PositionOrder ==
    \A name \in DOMAIN store \ {"/index/uuid"} :
        \A e \in DOMAIN StoredLists(name) : StrictlyAscending(StoredLists(name)[e])

\* C17 witness: makedset has persisted a label group whose positions come
\* from both input files.
C17_Witness ==
    /\ prog = "makedset" /\ pc = "done"
    /\ \E e \in DOMAIN StoredLists("/index/label") :
          LET l == StoredLists("/index/label")[e]
          IN  Len(l) >= 2 /\ l[1] < Len(input[1]) /\ l[Len(l)] >= Len(input[1])

\* The same for writeindex: a day group with several positions is persisted.
C17_WitnessRescan ==
    /\ prog = "writeindex" /\ pc = "done"
    /\ \E e \in DOMAIN StoredLists("/index/day") : Len(StoredLists("/index/day")[e]) >= 2


\* The lines of the input files of makedset, in argument order.
RECURSIVE Concat(_)
Concat(seqs) == IF seqs = <<>> THEN <<>> ELSE Head(seqs) \o Concat(Tail(seqs))

\* The number of records makedset has written to the circuits array.
Written == IF pc = "write" THEN wr_cursor + tot_written ELSE wr_cursor

\* The circuits array holds, at positions 0..Written-1, the decoded lines
\* of the input in their order (the k-th line at position k-1), and nothing
\* has been written from position Written on.
WrittenPrefix ==
    (prog = "makedset" /\ pc # "count") =>
        /\ Written <= Len(ds)
        /\ \A p \in DOMAIN ds :
              IF p <= Written
              THEN \E u \in Uuids : Decoded[Concat(input)[p], u] = Ok(ds[p])
              ELSE ds[p] = ZeroedCircuit

\* A step writes at the positions from Written on only, leaving no gap, and
\* so never at a position that was written before.
WriteOnce ==
    prog = "makedset" =>
        \A p \in DOMAIN ds :
            ds'[p] # ds[p] => (Written < p /\ p <= Written' /\ ds[p] = ZeroedCircuit)

\* C20 (position assignment): throughout a run of makedset the k-th record
\* decoded from the input files, taken in argument order and line order, is
\* at position k-1 of the circuits array; positions are written in
\* increasing order without gaps and no position is written twice.
C20_PositionAssignment == []WrittenPrefix /\ [][WriteOnce]_vars

\* C20 witness: makedset has finished on a file of one line followed by a
\* file of two different lines.
C20_Witness ==
    /\ prog = "makedset" /\ pc = "done"
    /\ Len(input[1]) = 1 /\ Len(input[2]) = 2
    /\ input[2][1] # input[2][2] /\ input[1][1] = input[2][2]
    /\ Written = 3


\* decode_file has returned an error for a line of an input file.
DecodeFailed == prog = "makedset" /\ pc = "decode" /\ Failed

\* No index is persisted when a line has failed to decode.
NoIndexOnDecodeError == DecodeFailed => DOMAIN store = {}

\* An index is persisted only when every line of every input file has been
\* decoded and written to the circuits array.
IndexAfterAllFiles ==
    (prog = "makedset" /\ DOMAIN store # {}) =>
        (file_i > Len(input) /\ wr_cursor = Len(Concat(input)))

\* C21 (decode error discards indices): once the decoding of a line has
\* failed in makedset no index is persisted, then or later; an index is
\* persisted only when every line of every input file has been decoded and
\* written to the circuits array.
C21_DecodeErrorNoIndex ==
    /\ []NoIndexOnDecodeError
    /\ []IndexAfterAllFiles
    /\ [][DecodeFailed => (DecodeFailed' /\ store' = store)]_vars

\* C21 witness: the first file was decoded, written and indexed, and a line
\* of the second file has failed to decode.
C21_Witness ==
    /\ DecodeFailed /\ file_i = 2 /\ wr_cursor > 0
    /\ DOMAIN ci.day # {} /\ ds[1] # ZeroedCircuit
    /\ DOMAIN store = {}


\* The uuids of the records written so far are pairwise different: the
\* calls of Uuid::new_v4() of this run have not repeated a value.
NeverRepeated ==
    \A i, j \in 1..Written : i # j => ds[i].uuid # ds[j].uuid

\* C24 (identifier invariant): every record makedset has written carries a
\* uuid of 32 bytes, none NUL, all ASCII, made by Uuid::new_v4() whatever
\* the line holds; and when no value was repeated the records share no
\* uuid and write_uuid_index does not fail.
C24_Identifier ==
    (prog = "makedset" /\ pc # "count") =>
        /\ \A p \in 1..Written :
              /\ Len(ds[p].uuid) = UuidCap
              /\ \A i \in 1..UuidCap : ds[p].uuid[i] \in 1..127
              /\ \E u \in Uuids : \A l \in PipeLines :
                    Decoded[l, u].kind = "Ok" => ds[p].uuid = Decoded[l, u].v.uuid
        /\ NeverRepeated =>
              /\ ~(pc = "uuid" /\ Failed)
              /\ \A k \in DOMAIN ci.uuid : Len(ci.uuid[k]) = 1

\* C24 witness: makedset has finished on three lines that got three
\* different uuids, and the uuid index holds three datasets.
C24_Witness ==
    /\ prog = "makedset" /\ pc = "done" /\ Written = 3 /\ NeverRepeated
    /\ Cardinality(DOMAIN store["/index/uuid"].datasets) = 3
    /\ store["/index/uuid"].note


(***************************************************************************)
(* SpecLabel: the three label functions applied to one Circuit whose       *)
(* domain and shortest_private_suffix are drawn from LabelBuffers.         *)
(***************************************************************************)
\* The contents of a label field: nothing, "a", "b", "a.b", a NUL followed
\* by 'a', and "None".
LabelBytes ==
    {<<>>, <<97>>, <<98>>, <<97, 46, 98>>, <<0, 97>>, <<78, 111, 110, 101>>}

LabelBuffers == {from_ascii(b, LabelCap).v : b \in LabelBytes}

LabelCircuits ==
    {[ZeroedCircuit EXCEPT !.domain = d, !.shortest_private_suffix = sps] :
        d \in LabelBuffers, sps \in LabelBuffers}

\* convertdset.rs circuit_label
circuit_label_cd(circ) ==
    LET fixed_ascii_null == fixedascii_null(LabelCap)
    IN  IF fixed_ascii_null.kind # "Ok" THEN fixed_ascii_null
        ELSE IF circ.shortest_private_suffix # fixed_ascii_null.v
        THEN Ok(as_str(circ.shortest_private_suffix))
        ELSE Ok(as_str(circ.domain))

InitLabel ==
    /\ label_in \in LabelCircuits
    /\ label_rs = Idle
    /\ label_mk = Idle
    /\ label_cd = Idle
    /\ IdleCommand
    /\ IdleMore
    /\ IdleAscii
    /\ IdleDecode
    /\ IdlePipe

\* writeindex.rs:63, circuit.label()
LabelRescan ==
    /\ label_in # Idle
    /\ label_rs = Idle
    /\ label_rs' = Circuit_label(label_in)
    /\ UNCHANGED <<label_in, label_mk, label_cd, code, cell_res, relay_res>>
    /\ UNCHANGED <<asciiVars, decodeVars, pipeVars, moreVars>>

\* makedset.rs:78 and 111, circuit_label(&circ, &fixed_ascii_null)
LabelMakedset ==
    /\ label_in # Idle
    /\ label_mk = Idle
    /\ label_mk' = circuit_label(label_in, fixedascii_null(LabelCap).v)
    /\ UNCHANGED <<label_in, label_rs, label_cd, code, cell_res, relay_res>>
    /\ UNCHANGED <<asciiVars, decodeVars, pipeVars, moreVars>>

\* convertdset.rs:89, circuit_label(&circ)
LabelConvertdset ==
    /\ label_in # Idle
    /\ label_cd = Idle
    /\ label_cd' = circuit_label_cd(label_in)
    /\ UNCHANGED <<label_in, label_rs, label_mk, code, cell_res, relay_res>>
    /\ UNCHANGED <<asciiVars, decodeVars, pipeVars, moreVars>>

NextLabel == LabelRescan \/ LabelMakedset \/ LabelConvertdset

SpecLabel == InitLabel /\ [][NextLabel]_vars

\* C11 (label rule): Circuit::label returns shortest_private_suffix when
\* that field is not the all-null value fixedascii_null::<44>(), and domain
\* when it is.
C11_LabelRule ==
    label_rs # Idle =>
        label_rs = IF label_in.shortest_private_suffix # fixedascii_null(LabelCap).v
                   THEN label_in.shortest_private_suffix
                   ELSE label_in.domain

\* A suffix that starts with a NUL byte but is not all-null has been
\* labelled, and a circuit with an all-null suffix and a domain has too.
C11_Witness ==
    /\ label_rs # Idle
    /\ label_in.shortest_private_suffix[1] = 0
    /\ label_in.shortest_private_suffix # Zeros(LabelCap)
    /\ label_in.domain # label_in.shortest_private_suffix
    /\ label_in.domain # Zeros(LabelCap)

\* C12 (label path equivalence): for one Circuit, circuit_label of makedset
\* and of convertdset give the label that Circuit::label gives: the same
\* FixedAscii in makedset, its string in convertdset.
C12_LabelPathsAgree ==
    /\ (label_rs # Idle /\ label_mk # Idle) => label_mk = Ok(label_rs)
    /\ (label_rs # Idle /\ label_cd # Idle) => label_cd = Ok(as_str(label_rs))
    /\ (label_mk # Idle /\ label_cd # Idle) =>
          /\ label_mk.kind = "Ok" /\ label_cd.kind = "Ok"
          /\ label_cd.v = as_str(label_mk.v)

\* All three labels of a circuit whose suffix and domain differ have been
\* computed, for a circuit with a suffix.
C12_Witness ==
    /\ label_rs # Idle /\ label_mk # Idle /\ label_cd # Idle
    /\ label_in.shortest_private_suffix # Zeros(LabelCap)
    /\ label_in.domain # label_in.shortest_private_suffix
    /\ label_mk.v = label_in.shortest_private_suffix

(***************************************************************************)
(* SpecLabelIndex: write_label_index applied to the HashMap that the       *)
(* indexing loop builds for records whose labels are drawn from LabelKeys. *)
(***************************************************************************)
\* The labels "a/b", "a_b", "a" and "b/".
LabelKeys ==
    {from_ascii(b, LabelCap).v :
        b \in {<<97, 47, 98>>, <<97, 95, 98>>, <<97>>, <<98, 47>>}}

\* makedset.rs:113, index_label.entry(label).or_default().push(ds_index), for
\* the records from the k-th on, labels[k] being the label of record k.
RECURSIVE label_push(_, _, _)
label_push(m, labels, k) ==
    IF k > Len(labels) THEN m
    ELSE label_push(entry_push(m, labels[k], ds_index(0, k - 1)), labels, k + 1)

InitLabelIndex ==
    /\ \E labels \in SeqsUpTo(LabelKeys, MaxRecs) :
          index_label = label_push(<<>>, labels, 1)
    /\ label_res = Idle
    /\ IdleCell
    /\ IdleConvert
    /\ IdleLabel
    /\ IdleCommand
    /\ IdleAscii
    /\ IdleDecode
    /\ IdlePipe

\* makedset.rs:136, write_label_index(&file, index_label)
WriteLabelIndex ==
    /\ index_label # Idle
    /\ label_res = Idle
    /\ \E ord \in into_iter(index_label) :
          label_res' = write_label_index(index_label, ord)
    /\ UNCHANGED <<index_label, cell_a, cell_b, cell_cmp, cell_eq, inds>>
    /\ UNCHANGED <<asciiVars, decodeVars, pipeVars, fnVars>>

NextLabelIndex == WriteLabelIndex

SpecLabelIndex == InitLabelIndex /\ [][NextLabelIndex]_vars

\* A label as text with every '/' turned into '_'.
Underscored(k) == [i \in DOMAIN as_str(k) |-> IF as_str(k)[i] = 47 THEN 95 ELSE as_str(k)[i]]

\* C25 (path-separator substitution): every dataset of the label group is
\* named by a label with every '/' replaced by '_' and holds the positions
\* of that label, so no name holds a '/'; when write_label_index returns Ok
\* every label has its dataset under that name, which is the label's own
\* text when the label has no '/'.
C25_Substitution ==
    label_res # Idle =>
        LET datasets == label_res.group.datasets
        IN  /\ \A name \in DOMAIN datasets :
                  /\ \A i \in DOMAIN name : name[i] # 47
                  /\ \E k \in DOMAIN index_label :
                        name = Underscored(k) /\ datasets[name] = index_label[k]
            /\ label_res.res.kind = "Ok" =>
                  \A k \in DOMAIN index_label :
                      /\ Underscored(k) \in DOMAIN datasets
                      /\ datasets[Underscored(k)] = index_label[k]
                      /\ (\A i \in DOMAIN as_str(k) : as_str(k)[i] # 47)
                            => as_str(k) \in DOMAIN datasets

\* C25 witness: the groups of "a/b", "b/" and "a" have been persisted.
C25_Witness ==
    /\ label_res # Idle /\ label_res.res.kind = "Ok"
    /\ DOMAIN label_res.group.datasets = {<<97, 95, 98>>, <<98, 95>>, <<97>>}
    /\ \E k \in DOMAIN index_label : as_str(k) = <<97, 47, 98>>

\* C26 (as claimed): two different labels of the index never get the same
\* name, write_label_index does not fail, and every label has a dataset of
\* its own.
C26_NoNameCollision ==
    label_res # Idle =>
        /\ \A k1, k2 \in DOMAIN index_label :
              k1 # k2 => Underscored(k1) # Underscored(k2)
        /\ label_res.res.kind = "Ok"
        /\ Cardinality(DOMAIN label_res.group.datasets)
              = Cardinality(DOMAIN index_label)


(***************************************************************************)
(* SpecWrite: the main function of writecircuits, which drops the lines    *)
(* that decode to None, run with the window [T0, T0 + SecsPerDay].         *)
(***************************************************************************)
\* The lines of the input files: a line inside the window, a line after
\* it, an empty line ("\n") and a line without a domain.
WcLines ==
    {JsonLine(FALSE, JObj(BaseObj(JArr(<<G1(5)>>), T0 + 3600))),
     JsonLine(FALSE, JObj(BaseObj(JArr(<<G1(5)>>), T0 + SecsPerDay + 3600))),
     [prefix |-> FALSE, body |-> [kind |-> "blank", len |-> 1]],
     JsonLine(FALSE, JObj(Drop(BaseObj(JArr(<<>>), T0 + 3600), "domain")))}

WcInputs ==
    {<<f1, f2>> : f1 \in SeqsUpTo(WcLines, MaxRecs), f2 \in SeqsUpTo(WcLines, MaxRecs)}

\* writecircuits' decode_circuit on these lines, tabulated; of a Circuit
\* the metadata is kept.
WcDecoded ==
    [l \in WcLines, u \in Uuids |->
        LET r == decode_circuit_wc(l, Some(T0), Some(T0 + SecsPerDay), u)
        IN  IF r.kind = "Ok" THEN Ok(Metadata(r.v)) ELSE r]

\* writecircuits.rs:217-219, `if let Some(circuit) = .. { circuits.push(circuit) }`
\* for the results from the k-th on.
RECURSIVE push_some(_, _)
push_some(res, k) ==
    IF k > Len(res) THEN <<>>
    ELSE (IF res[k].kind = "Ok" THEN <<res[k].v>> ELSE <<>>) \o push_some(res, k + 1)

\* Mutant of resize: the dataset keeps its length.
resize_not(dset, n) == dset

\* Dataset::resize(n) to a smaller length: the first n elements stay.
resize(dset, n) == SubSeq(dset, 1, n)

InitWrite ==
    /\ IdleAscii
    /\ IdleFn
    /\ variant = "none" /\ jsonl = Idle /\ out = Idle
    /\ begin = Some(T0) /\ end = Some(T0 + SecsPerDay)
    /\ prog = "writecircuits"
    /\ input \in {in \in WcInputs : Len(in[1]) + Len(in[2]) <= MaxRecs}
    /\ ds = <<>>
    /\ pc = "count"
    /\ err = "none"
    /\ file_i = 0 /\ circ_array = <<>> /\ wr_cursor = 0 /\ chunk = 0
    /\ tot_written = 0 /\ ci = <<>> /\ store = <<>>

\* writecircuits.rs:60-77: the lines are counted and the dataset is created
\* with their number as its shape.
wc_count_circuits ==
    /\ prog = "writecircuits" /\ err = "none" /\ pc = "count"
    /\ LET circ_counts == [i \in DOMAIN input |-> Len(input[i])]
           n_tot_circs == sum(circ_counts)
       IN  ds' = [p \in 1..n_tot_circs |-> ZeroedCircuit]
    /\ wr_cursor' = 0
    /\ file_i' = 1
    /\ pc' = IF Len(input) = 0 THEN "resize" ELSE "decode"
    /\ UNCHANGED <<asciiVars, fnVars, moreVars, decodeVars, prog, input, err,
                   circ_array, chunk, tot_written, ci, store>>

\* writecircuits.rs:90 with decode_file: every line of the file is decoded,
\* the first error ending main; the lines that decode to None are left out.
wc_decode_file ==
    /\ prog = "writecircuits" /\ err = "none" /\ pc = "decode"
    /\ LET file == input[file_i]
       IN  \E us \in new_v4s(Len(file),
                             {as_str(ds[p].uuid) : p \in 1..wr_cursor}) :
             LET res == [k \in DOMAIN file |-> WcDecoded[file[k], us[k]]]
                 bad == {k \in DOMAIN file : res[k].kind \notin {"Ok", "None"}}
                 first == CHOOSE k \in bad : \A x \in bad : k <= x
                 circuits == push_some(res, 1)
             IN  IF bad # {}
                 THEN /\ err' = IF res[first].kind = "Panic" THEN "panic"
                                ELSE res[first].e
                      /\ UNCHANGED <<pc, circ_array, chunk, tot_written>>
                 ELSE /\ circ_array' = circuits
                      /\ chunk' = 0
                      /\ tot_written' = 0
                      /\ pc' = "write"
                      /\ UNCHANGED err
    /\ UNCHANGED <<asciiVars, fnVars, moreVars, decodeVars, prog, input, ds, file_i,
                   wr_cursor, ci, store>>

\* One iteration of the write loop (writecircuits.rs:98-110).
wc_write_slice ==
    /\ prog = "writecircuits" /\ err = "none" /\ pc = "write"
    /\ chunk < Len(circ_array)
    /\ LET e == chunk_end(chunk, Len(circ_array))
           wr_begin == wr_cursor + chunk
           wr_end == wr_cursor + e
           wrote == wr_end - wr_begin
       IN  IF wr_end > Len(ds)
           THEN /\ err' = "hdf5: write_slice out of bounds"
                /\ UNCHANGED <<pc, ds, tot_written, chunk>>
           ELSE /\ ds' = [p \in DOMAIN ds |->
                            IF wr_begin < p /\ p <= wr_end
                            THEN circ_array[p - wr_cursor] ELSE ds[p]]
                /\ tot_written' = tot_written + wrote
                /\ chunk' = chunk + Step
                /\ UNCHANGED <<pc, err>>
    /\ UNCHANGED <<asciiVars, fnVars, moreVars, decodeVars, prog, input, file_i,
                   circ_array, wr_cursor, ci, store>>

\* The rest of the body of the loop over the files (writecircuits.rs:112-118).
wc_file_done ==
    /\ prog = "writecircuits" /\ err = "none" /\ pc = "write"
    /\ chunk >= Len(circ_array)
    /\ IF tot_written # Len(circ_array)
       THEN /\ err' = "Only wrote"
            /\ UNCHANGED <<pc, wr_cursor, file_i>>
       ELSE /\ wr_cursor' = wr_cursor + Len(circ_array)
            /\ file_i' = file_i + 1
            /\ pc' = IF file_i + 1 > Len(input) THEN "resize" ELSE "decode"
            /\ UNCHANGED err
    /\ UNCHANGED <<asciiVars, fnVars, moreVars, decodeVars, prog, input, ds,
                   circ_array, chunk, tot_written, ci, store>>

\* writecircuits.rs:121-125: the dataset is cut to the circuits written.
wc_resize ==
    /\ prog = "writecircuits" /\ err = "none" /\ pc = "resize"
    /\ LET n_tot_circs == Len(ds)
       IN  ds' = IF wr_cursor < n_tot_circs THEN resize(ds, wr_cursor) ELSE ds
    /\ pc' = "done"
    /\ UNCHANGED <<asciiVars, fnVars, moreVars, decodeVars, prog, input, err, file_i,
                   circ_array, wr_cursor, chunk, tot_written, ci, store>>

NextWrite ==
    \/ wc_count_circuits
    \/ wc_decode_file
    \/ wc_write_slice
    \/ wc_file_done
    \/ wc_resize

SpecWrite == InitWrite /\ [][NextWrite]_vars

\* The lines of the input that decode to a Circuit.
KeptLines ==
    {k \in DOMAIN Concat(input) :
        \E u \in Uuids : WcDecoded[Concat(input)[k], u].kind = "Ok"}

\* C27 (final array length): the circuits array of writecircuits is created
\* with the number of lines of all input files as its length, no write_slice
\* goes to a position at or past that length, and when main has returned Ok
\* the length is wr_cursor, the number of lines kept, with every element
\* written.
C27_FinalLength ==
    prog = "writecircuits" =>
        /\ pc \in {"decode", "write", "resize"} => Len(ds) = Len(Concat(input))
        /\ err # "hdf5: write_slice out of bounds"
        /\ pc = "write" => wr_cursor + Len(circ_array) <= Len(ds)
        /\ pc = "done" =>
              /\ Len(ds) = wr_cursor
              /\ wr_cursor = Cardinality(KeptLines)
              /\ \A p \in DOMAIN ds : ds[p] # ZeroedCircuit

\* C27 witness: main has returned Ok on three lines of which one was
\* outside the window, and the array has two elements.
C27_Witness ==
    /\ prog = "writecircuits" /\ pc = "done"
    /\ Len(Concat(input)) = 3 /\ Len(ds) = 2
    /\ \E k \in DOMAIN Concat(input) :
          Concat(input)[k].body.kind = "json" /\ k \notin KeptLines


(***************************************************************************)
(* SpecCommand: CellCommand::try_from and RelayCommand::try_from applied   *)
(* to every u8.                                                            *)
(***************************************************************************)
InitCommand ==
    /\ code \in 0..U8_MAX
    /\ cell_res = Idle
    /\ relay_res = Idle
    /\ IdleLabel
    /\ IdleMore
    /\ IdleAscii
    /\ IdleDecode
    /\ IdlePipe

\* CellCommand::try_from(code)
CellTryFrom ==
    /\ cell_res = Idle
    /\ cell_res' = CellCommand_try_from(code)
    /\ UNCHANGED <<label_in, label_rs, label_mk, label_cd, code, relay_res>>
    /\ UNCHANGED <<asciiVars, decodeVars, pipeVars, moreVars>>

\* RelayCommand::try_from(code)
RelayTryFrom ==
    /\ relay_res = Idle
    /\ relay_res' = RelayCommand_try_from(code)
    /\ UNCHANGED <<label_in, label_rs, label_mk, label_cd, code, cell_res>>
    /\ UNCHANGED <<asciiVars, decodeVars, pipeVars, moreVars>>

NextCommand == CellTryFrom \/ RelayTryFrom

SpecCommand == InitCommand /\ [][NextCommand]_vars

\* C13 (cell-command totality): CellCommand::try_from(c) is Ok exactly for
\* c in 0..12 and 128..132, the variant returned has discriminant c, and
\* every other byte gets the "Unexpected cell command value" error.
C13_CellCommandTotal ==
    cell_res # Idle =>
        IF code \in (0..12) \cup (128..132)
        THEN cell_res.kind = "Ok" /\ CellCommandDiscr[cell_res.v] = code
        ELSE cell_res = Err("Unexpected cell command value")

\* The last accepted code, 132, has been converted.
C13_Witness == cell_res # Idle /\ code = 132 /\ cell_res.kind = "Ok"

\* A byte between the two accepted ranges has been refused.
C13_WitnessErr == cell_res # Idle /\ code = 13 /\ cell_res.kind = "Err"

\* C14 (relay-command totality): RelayCommand::try_from(c) is Ok exactly
\* for the 30 values c in 0..16 and 32..44, the variant returned has
\* discriminant c, and every other byte gets the "Unexpected relay command
\* value" error.
C14_RelayCommandTotal ==
    /\ Cardinality({c \in 0..U8_MAX : RelayCommand_try_from(c).kind = "Ok"}) = 30
    /\ relay_res # Idle =>
          IF code \in (0..16) \cup (32..44)
          THEN relay_res.kind = "Ok" /\ RelayCommandDiscr[relay_res.v] = code
          ELSE relay_res = Err("Unexpected relay command value")

\* The first code of the second range, 32, has been converted.
C14_Witness == relay_res # Idle /\ code = 32 /\ relay_res.kind = "Ok"

(***************************************************************************)
(* SpecConvert: the main functions of copycircuits and convertdset, which  *)
(* copy the "circuits" dataset of one file into a new file in chunks;      *)
(* convertdset also rewrites the "None" suffixes and writes the indices.   *)
(***************************************************************************)
\* The longest dataset copycircuits is run on.
MaxCopy == 5

\* The records of the input datasets: the two circuits of GoodLines, each
\* under a uuid of its own.
CopyCircuits == {c \in Circuits : c.uuid = Uuid(c.day)}

\* The records of the datasets convertdset is run on: the shortest private
\* suffix is null, "b" or the string "None" of the older files.
ConvertCircuits ==
    {[c EXCEPT !.shortest_private_suffix = from_ascii(b, LabelCap).v] :
        c \in CopyCircuits, b \in {<<>>, <<98>>, <<78, 111, 110, 101>>}}

\* Mutant of none_to_null: the suffix is left as it was read.
none_to_null_keep(circ, fixed_ascii_none, fixed_ascii_null) == circ

\* convertdset.rs:79-81
none_to_null(circ, fixed_ascii_none, fixed_ascii_null) ==
    IF circ.shortest_private_suffix = fixed_ascii_none
    THEN [circ EXCEPT !.shortest_private_suffix = fixed_ascii_null]
    ELSE circ

\* convertdset.rs:76-92: the loop over the circuits of the chunk read at
\* wr_begin, from the k-th on; what is returned is the chunk as it is
\* written and the three HashMaps.
RECURSIVE cd_push(_, _, _, _)
cd_push(st, wr_begin, fixed_ascii_none, k) ==
    IF k > Len(st.circ_array) THEN st
    ELSE LET circ == none_to_null(st.circ_array[k], fixed_ascii_none,
                                  fixedascii_null(LabelCap).v)
             di == ds_index(wr_begin, k - 1)
             label == circuit_label_cd(circ).v
         IN  cd_push([circ_array |-> [st.circ_array EXCEPT ![k] = circ],
                      day |-> entry_push(st.day, circ.day, di),
                      uuid |-> entry_push(st.uuid, as_str(circ.uuid), di),
                      label |-> entry_push(st.label, label, di)],
                     wr_begin, fixed_ascii_none, k + 1)

InitConvert ==
    /\ IdleAscii
    /\ IdleDecode
    /\ IdleLabel
    /\ IdleCommand
    /\ IdleLabelIndex
    /\ IdleCell
    /\ prog \in {"copycircuits", "convertdset"}
    /\ IF prog = "copycircuits"
       THEN /\ inds \in SeqsUpTo(CopyCircuits, MaxCopy)
            /\ ci = <<>>
       ELSE /\ inds \in SeqsUpTo(ConvertCircuits, MaxRecs)
            /\ ci = [day |-> <<>>, uuid |-> <<>>, label |-> <<>>]
    /\ input = <<>> /\ ds = <<>> /\ pc = "create" /\ err = "none"
    /\ file_i = 0 /\ circ_array = <<>> /\ wr_cursor = 0 /\ chunk = 0
    /\ tot_written = 0 /\ store = <<>>

\* copycircuits.rs:44-67: the output dataset is made with the size of the
\* input dataset.
cc_create ==
    /\ prog = "copycircuits" /\ err = "none" /\ pc = "create"
    /\ ds' = [p \in 1..Len(inds) |-> ZeroedCircuit]
    /\ chunk' = 0
    /\ tot_written' = 0
    /\ pc' = "copy"
    /\ UNCHANGED <<asciiVars, decodeVars, fnVars, moreVars, prog, input, err, file_i,
                   circ_array, wr_cursor, ci, store>>

\* One iteration of the copy loop (copycircuits.rs:69-78).
cc_copy_slice ==
    /\ prog = "copycircuits" /\ err = "none" /\ pc = "copy" /\ chunk < Len(inds)
    /\ LET wr_begin == chunk
           wr_end == chunk_end(wr_begin, Len(inds))
           wrote == wr_end - wr_begin
       IN  IF wr_end > Len(inds)
           THEN /\ err' = "hdf5: read_slice out of bounds"
                /\ UNCHANGED <<ds, circ_array, tot_written, chunk>>
           ELSE /\ circ_array' = SubSeq(inds, wr_begin + 1, wr_end)
                /\ ds' = [p \in DOMAIN ds |->
                            IF wr_begin < p /\ p <= wr_end
                            THEN circ_array'[p - wr_begin] ELSE ds[p]]
                /\ tot_written' = tot_written + wrote
                /\ chunk' = chunk + Step
                /\ UNCHANGED err
    /\ UNCHANGED <<asciiVars, decodeVars, fnVars, moreVars, prog, input, pc, file_i,
                   wr_cursor, ci, store>>

\* copycircuits.rs:80-87: the files are closed, and a short count is only
\* logged as a warning.
cc_finish ==
    /\ prog = "copycircuits" /\ err = "none" /\ pc = "copy" /\ chunk >= Len(inds)
    /\ pc' = IF tot_written # Len(inds) THEN "warned" ELSE "done"
    /\ UNCHANGED <<asciiVars, decodeVars, fnVars, moreVars, prog, input, ds, err, file_i,
                   circ_array, wr_cursor, chunk, tot_written, ci, store>>

\* convertdset.rs:41-69: the output dataset is made with the size of the
\* input dataset, and the HashMaps are empty.
cd_create ==
    /\ prog = "convertdset" /\ err = "none" /\ pc = "create"
    /\ ds' = [p \in 1..Len(inds) |-> ZeroedCircuit]
    /\ chunk' = 0
    /\ tot_written' = 0
    /\ pc' = "copy"
    /\ UNCHANGED <<asciiVars, decodeVars, fnVars, moreVars, prog, input, err, file_i,
                   circ_array, wr_cursor, ci, store>>

\* One iteration of the conversion loop (convertdset.rs:71-99);
\* fixed_ascii_none is the value made at convertdset.rs:66.
cd_convert_slice ==
    /\ prog = "convertdset" /\ err = "none" /\ pc = "copy" /\ chunk < Len(inds)
    /\ LET wr_begin == chunk
           wr_end == chunk_end(wr_begin, Len(inds))
           wrote == wr_end - wr_begin
           fixed_ascii_none == fixedascii_from_str(<<78, 111, 110, 101>>, LabelCap)
       IN  IF wr_end > Len(inds)
           THEN /\ err' = "hdf5: read_slice out of bounds"
                /\ UNCHANGED <<ds, circ_array, tot_written, chunk, ci>>
           ELSE LET st == cd_push([circ_array |-> SubSeq(inds, wr_begin + 1, wr_end),
                                   day |-> ci.day, uuid |-> ci.uuid,
                                   label |-> ci.label],
                                  wr_begin, fixed_ascii_none.v, 1)
                IN  /\ circ_array' = st.circ_array
                    /\ ci' = [day |-> st.day, uuid |-> st.uuid, label |-> st.label]
                    /\ ds' = [p \in DOMAIN ds |->
                                IF wr_begin < p /\ p <= wr_end
                                THEN st.circ_array[p - wr_begin] ELSE ds[p]]
                    /\ tot_written' = tot_written + wrote
                    /\ chunk' = chunk + Step
                    /\ UNCHANGED err
    /\ UNCHANGED <<asciiVars, decodeVars, fnVars, moreVars, prog, input, pc, file_i,
                   wr_cursor, store>>

\* convertdset.rs:100-111: the sanity check on tot_written, then the note
\* of the dataset.
cd_check ==
    /\ prog = "convertdset" /\ err = "none" /\ pc = "copy" /\ chunk >= Len(inds)
    /\ IF tot_written # Len(inds)
       THEN err' = "Only wrote" /\ UNCHANGED pc
       ELSE pc' = "day" /\ UNCHANGED err
    /\ UNCHANGED <<asciiVars, decodeVars, fnVars, moreVars, prog, input, ds, file_i,
                   circ_array, wr_cursor, chunk, tot_written, ci, store>>

\* One of the three calls convertdset.rs:114, 115 and 123; results[ord] is
\* what the function called returns when the HashMap is iterated in the
\* order ord.
cd_write(at, name, results, next) ==
    /\ prog = "convertdset" /\ err = "none" /\ pc = at
    /\ \E ord \in DOMAIN results :
         LET r == results[ord]
         IN  /\ store' = store @@ (name :> r.group)
             /\ pc' = IF r.res.kind = "Ok" THEN next ELSE pc
             /\ err' = IF r.res.kind = "Ok" THEN err ELSE r.res.e
    /\ UNCHANGED <<asciiVars, decodeVars, fnVars, moreVars, prog, input, ds, file_i,
                   circ_array, wr_cursor, chunk, tot_written, ci>>

cd_write_day_index ==
    cd_write("day", "/index/day",
             [ord \in into_iter(ci.day) |-> write_day_index(ci.day, ord)], "label")
cd_write_label_index ==
    cd_write("label", "/index/label",
             [ord \in into_iter(ci.label) |-> write_label_index(ci.label, ord)],
             "uuid")
\* convertdset.rs:117-124: the uuid index goes into a copy of the output.
cd_write_uuid_index ==
    cd_write("uuid", "with_uuid_idx.hdf5/index/uuid",
             [ord \in into_iter(ci.uuid) |-> write_uuid_index(ci.uuid, ord)], "done")

NextConvert ==
    \/ cc_create
    \/ cc_copy_slice
    \/ cc_finish
    \/ cd_create
    \/ cd_convert_slice
    \/ cd_check
    \/ cd_write_day_index
    \/ cd_write_label_index
    \/ cd_write_uuid_index

SpecConvert == InitConvert /\ [][NextConvert]_vars

\* The positions of the output dataset a step writes.
SliceWritten == {p \in DOMAIN ds : ds'[p] # ds[p]}

\* While the chunk loop runs nothing has failed, the slices issued so far
\* cover the first tot_written positions and nothing more, and the next
\* slice begins where they end.
ChunkCovered ==
    (prog \in {"copycircuits", "convertdset"} /\ pc = "copy") =>
        /\ err = "none"
        /\ Len(ds) = Len(inds)
        /\ tot_written = Min(chunk, Len(inds))
        /\ \A p \in DOMAIN ds : (ds[p] = ZeroedCircuit) <=> (p > tot_written)

\* After the loop the count is the size of the dataset: the "Only wrote"
\* check has not fired.
ChunkComplete ==
    /\ (prog \in {"copycircuits", "convertdset"} /\ pc \notin {"create", "copy"}) =>
            tot_written = Len(inds) /\ \A p \in DOMAIN ds : ds[p] # ZeroedCircuit
    /\ prog \in {"copycircuits", "convertdset"} =>
            err # "Only wrote" /\ pc # "warned"

\* An iteration of the loop writes the slice [chunk, min(chunk + Step, n)),
\* which is not empty, begins at the end of the slices written before and
\* holds no position written before.
ChunkStep ==
    (pc = "copy" /\ chunk' # chunk) =>
        /\ chunk' = chunk + Step
        /\ SliceWritten = (chunk + 1)..Min(chunk + Step, Len(inds))
        /\ SliceWritten # {}
        /\ \A p \in SliceWritten : ds[p] = ZeroedCircuit /\ p > tot_written
        /\ tot_written' = tot_written + Cardinality(SliceWritten)

\* C28 (chunked write coverage): for a dataset of n records the chunk loop
\* issues the slices [begin, min(begin + Step, n)) one after the other in
\* increasing order, no two of them overlap, together they are [0, n), so
\* that tot_written is n when the loop ends and the "Only wrote" check of
\* convertdset and the warning of copycircuits never happen.
C28_ChunkCoverage == []ChunkCovered /\ []ChunkComplete /\ [][ChunkStep]_vars

\* copycircuits has copied a dataset in more than two chunks, the last one
\* shorter than Step.
C28_Witness ==
    /\ prog = "copycircuits" /\ pc = "done"
    /\ Len(inds) > 2 * Step /\ Len(inds) % Step # 0
    /\ tot_written = Len(inds)

\* The dataset without records: the loop body never ran.
C28_WitnessEmpty ==
    prog = "convertdset" /\ pc = "day" /\ Len(inds) = 0 /\ tot_written = 0

\* The 44 bytes of the ASCII string "None".
NoneSuffix == [i \in 1..LabelCap |-> IF i <= 4 THEN <<78, 111, 110, 101>>[i] ELSE 0]

\* The elements of a sequence.
Elements(seq) == {seq[i] : i \in DOMAIN seq}

\* The conversion loop of convertdset has ended without an error.
Converted == prog = "convertdset" /\ pc \in {"day", "label", "uuid", "done"}

\* C29 (convertdset normalisation frame): after the conversion the output
\* dataset is as long as the input dataset; a record whose shortest private
\* suffix was "None" is the input record with the null suffix, and its
\* position is in the label index under its domain, in the HashMap and in
\* the group once it is written; every other record is the input record.
C29_NormalisationFrame ==
    Converted =>
        /\ Len(ds) = Len(inds)
        /\ \A p \in DOMAIN inds :
              IF inds[p].shortest_private_suffix = NoneSuffix
              THEN /\ ds[p] = [inds[p] EXCEPT
                                 !.shortest_private_suffix = Zeros(LabelCap)]
                   /\ as_str(inds[p].domain) \in DOMAIN ci.label
                   /\ (p - 1) \in Elements(ci.label[as_str(inds[p].domain)])
                   /\ pc \in {"uuid", "done"} =>
                        (p - 1) \in Elements(store["/index/label"].datasets[
                                                as_str(inds[p].domain)])
              ELSE ds[p] = inds[p]

\* convertdset has ended on a dataset that holds a record with the suffix
\* "None" and a record with another suffix.
C29_Witness ==
    /\ prog = "convertdset" /\ pc = "done" /\ err = "none"
    /\ \E p, q \in DOMAIN inds :
          /\ inds[p].shortest_private_suffix = NoneSuffix
          /\ ds[p].shortest_private_suffix = Zeros(LabelCap)
          /\ as_str(inds[q].shortest_private_suffix) = <<98>>
          /\ ds[q] = inds[q]

(***************************************************************************)
(* SpecCell: the comparison and the equality of lib.rs on two Cells.  An   *)
(* f64 is its sign bit, whether it is a NaN, and its magnitude.            *)
(***************************************************************************)
F64(neg, nan, mag) == [neg |-> neg, nan |-> nan, mag |-> mag]

\* The times of the cells: -0.0, 0.0, 1.0, 2.0, -1.0 and a NaN.
CellTimes ==
    {F64(TRUE, FALSE, 0), F64(FALSE, FALSE, 0), F64(FALSE, FALSE, 1),
     F64(FALSE, FALSE, 2), F64(TRUE, FALSE, 1), F64(FALSE, TRUE, 0)}

Cells ==
    [time : CellTimes,
     direction : {"CLIENT_TO_SERVER", "SERVER_TO_CLIENT", "PADDING"},
     cell_cmd : {"PADDING", "RELAY"},
     relay_cmd : {"NOT_PRESENT", "DATA"}]

\* f64's PartialEq, the == of IEEE 754: a NaN equals nothing and the two
\* zeros are equal.
f64_eq(x, y) ==
    /\ ~x.nan
    /\ ~y.nan
    /\ x.mag = y.mag
    /\ (x.neg = y.neg \/ x.mag = 0)

\* The place of an f64 in the total order of f64::total_cmp: the negative
\* NaNs, the negative numbers, -0.0, 0.0, the positive numbers, the NaNs.
total_order_key(x) ==
    LET place == IF x.nan THEN 3 ELSE x.mag
    IN  IF x.neg THEN -place - 1 ELSE place

\* f64::total_cmp
total_cmp(x, y) ==
    IF total_order_key(x) < total_order_key(y) THEN "Less"
    ELSE IF total_order_key(x) > total_order_key(y) THEN "Greater"
    ELSE "Equal"

\* lib.rs impl PartialEq for Cell
Cell_eq(self, other) ==
    /\ f64_eq(self.time, other.time)
    /\ self.direction = other.direction
    /\ self.cell_cmd = other.cell_cmd
    /\ self.relay_cmd = other.relay_cmd

\* lib.rs impl Ord for Cell
Cell_cmp(self, other) == total_cmp(self.time, other.time)

\* lib.rs impl PartialOrd for Cell
Cell_partial_cmp(self, other) == Some(Cell_cmp(self, other))

InitCell ==
    /\ cell_a \in Cells
    /\ cell_b \in Cells
    /\ cell_cmp = Idle
    /\ cell_eq = Idle
    /\ IdleLabelIndex
    /\ IdleConvert
    /\ IdleLabel
    /\ IdleCommand
    /\ IdleAscii
    /\ IdleDecode
    /\ IdlePipe

\* cell_a.partial_cmp(&cell_b), which is cell_a.cmp(&cell_b)
CellCmp ==
    /\ cell_cmp = Idle
    /\ cell_cmp' = Ok(Cell_partial_cmp(cell_a, cell_b).v)
    /\ UNCHANGED <<index_label, label_res, cell_a, cell_b, cell_eq, inds>>
    /\ UNCHANGED <<asciiVars, decodeVars, pipeVars, fnVars>>

\* cell_a == cell_b
CellEq ==
    /\ cell_eq = Idle
    /\ cell_eq' = Ok(Cell_eq(cell_a, cell_b))
    /\ UNCHANGED <<index_label, label_res, cell_a, cell_b, cell_cmp, inds>>
    /\ UNCHANGED <<asciiVars, decodeVars, pipeVars, fnVars>>

NextCell == CellCmp \/ CellEq

SpecCell == InitCell /\ [][NextCell]_vars

\* C30 (cell ordering consistent with equality): for all cells a and b,
\* a.cmp(b) is Equal if and only if a == b, so that sorting or
\* deduplicating by cmp never conflates cells that differ in direction,
\* cell_cmd or relay_cmd.
C30_OrdAgreesWithEq ==
    (cell_cmp # Idle /\ cell_eq # Idle) => ((cell_cmp.v = "Equal") <=> cell_eq.v)

====
